---- MODULE Spec2Model ----
(***************************************************************************)
(* State-machine model of DataCompressor (src/data_compression.py): the    *)
(* compression driver `compress`, the template store (find_matching_       *)
(* template, create_template, clean_expired_templates, merge_similar_      *)
(* templates, calculate_template_importance), the trend detector and the   *)
(* block-size controller `adjust_block_size`.                              *)
(*                                                                         *)
(* Numbers.  Similarity scores, CER values and thresholds are integers in  *)
(* hundredths (0.35 is 35).  Ratios (hit ratios, importance) are pairs     *)
(* <<numerator, denominator>> compared by cross-multiplication.  int(x*f)  *)
(* for a Python float factor f is the truncated integer quotient.          *)
(*                                                                         *)
(* Data.  The sample values are not modelled.  What the code computes from *)
(* them is drawn nondeterministically per block: the mean of the primary   *)
(* dimension (from Means), and per active template whether the statistical *)
(* prefilter skips it and, if not, the outcome of is_similar (not similar, *)
(* or similar with a score from Scores).  A stored template is represented *)
(* by the window it was copied from: [start, length].                      *)
(*                                                                         *)
(* Specifications.  Spec: one compress call on a new instance.             *)
(* SpecAnyBlockSize: the same with config['block_size'] 0 allowed.         *)
(* SpecReuse: several calls in a row on one instance.  SpecTwoInstances:   *)
(* two instances whose runs are interleaved.  SpecStore:                   *)
(* merge_similar_templates and create_template applied to stores of 4 to   *)
(* 6 templates, larger than the runs of Spec build.  SpecTrend:            *)
(* detect_trend called on its own, more often than its window is long.    *)
(* SpecSteady: one compress call on a long input whose blocks all have    *)
(* the same mean and, after the first, all match a template.              *)
(* SpecLevel: one compress call with a fixed block size on an input of    *)
(* five blocks and a short one, all of the same mean.                     *)
(***************************************************************************)
EXTENDS Integers, Sequences, FiniteSets, TLC

(* ---------------- configuration (self.config, lines 26-73) ------------- *)
min_block_size == 10
max_block_size == 15
config_block_size == 10
min_values == 10
template_expiration == 1
template_usage_threshold == 1
max_template_age == 2
trend_detection_window == 5
template_merge_interval == 2
enable_template_merging == TRUE
\* template_merge_threshold 0.9, in hundredths
template_merge_threshold == 90
\* trend_threshold 0.7, in hundredths
trend_threshold == 70
\* fields set by reset()
window_size == 10
min_adjustment_interval == 3
\* kmax of adjust_block_size
kmax == 20

(* ---------------- bounds of the model ---------------------------------- *)
\* longest input, in samples
MaxN == 45
\* config['max_templates'] of the instances that run compress
MaxTemplates == 2
\* number of dimensions of every sample
NumDims == 2
\* input lengths explored: empty, undersized, exactly one block, the longest
InputLengths == {0, min_block_size - 1, min_block_size, MaxN - 10, MaxN}
\* block means of the primary dimension
Means == {0, 1, 2}
\* similarity scores is_similar can report for a similar pair (hundredths)
Scores == {38, 80}
\* CER of an accepted match (hundredths, below max_acceptable_cer 0.15)
CerLevels == {5}
\* values of config['block_size'] a caller may supply
BlockSizeConfigs == {0, config_block_size}
\* blocks followed in one run (a run of the default configuration needs
\* at most MaxN \div min_block_size + 1 of them)
MaxBlocks == 6
\* compress calls made on one instance
MaxCalls == 2
\* config['min_blocks_before_adjustment']: of the runs of Spec, and of an
\* instance configured to leave the first ten blocks alone
EarlyStart == 2
LateStart == 10
\* length of an input of five whole blocks and a short one
LevelN == 55
\* lengths of long inputs, and the blocks followed in a run on one
LongN == 260
LongLengths == {LongN \div 2 - 5, LongN}
MaxLongBlocks == 14
\* blocks followed in a run on an input of n samples
BlockLimit(n) == IF n > MaxN THEN MaxLongBlocks ELSE MaxBlocks
\* input lengths of two runs that are interleaved: one block, and two blocks
\* followed by a short one
TwoRunLengths == {min_block_size, 25}
\* observations handed to detect_trend when it is called on its own
MaxObservations == 7
\* Stores handed to merge_similar_templates and create_template directly:
\* config['max_templates'], the numbers of active templates, their usage
\* counts, and the number of blocks processed when the store is handed over
StoreCapacity == 7
StoreSizes == {4, 5, 6}
UsageCounts == {3, 20}
StoreBlocks == 130
\* pairs of stored templates whose data may be similar, and the score
\* calculate_similarity_score gives such a pair (hundredths)
SimilarPairs == {<<2, 3>>, <<2, 4>>, <<3, 4>>, <<5, 6>>}
PairScore(pair) == 100 - pair[1]
\* scores of the archived template against the window handed to create
ArchiveScores == {50, 95}

VARIABLES
    \* the call: configuration flags, config['block_size'] and the input
    max_templates, multi_dimensional, adaptive_block_size, initial_block_size,
    min_blocks_before_adjustment, data,
    \* position of the driver and what compress returned
    pc, result, error,
    \* number of compress calls made on the instance so far (in SpecTrend:
    \* of detect_trend calls that carried values)
    calls,
    \* a second DataCompressor object whose run is suspended while the first
    \* one takes steps (NoInstance when only one object exists)
    other,
    \* locals of compress
    i, block_size, end_idx, template_id, is_match,
    \* fields of DataCompressor set by reset()
    templates, template_counter, encoded_stream, current_block_size,
    blocks_processed, template_hit_count, templates_used, recent_values,
    block_size_history, cer_values, similarity_scores, template_usage,
    template_last_used, template_creation_time, continuous_hit_ratio,
    window_hit_count, window_blocks, previous_adjustments,
    last_adjustment_block, last_merge_check, merged_templates,
    template_importance

callVars == <<max_templates, multi_dimensional, adaptive_block_size,
              initial_block_size, min_blocks_before_adjustment, data>>
localVars == <<i, block_size, end_idx, template_id, is_match>>
storeVars == <<templates, template_counter, template_usage, template_last_used,
               template_creation_time, last_merge_check, merged_templates,
               template_importance>>
historyVars == <<recent_values, cer_values, similarity_scores>>
counterVars == <<encoded_stream, blocks_processed, template_hit_count,
                 templates_used, continuous_hit_ratio, window_hit_count,
                 window_blocks>>
controllerVars == <<current_block_size, block_size_history, previous_adjustments,
                    last_adjustment_block>>
vars == <<callVars, pc, result, error, calls, other, localVars, storeVars, historyVars,
          counterVars, controllerVars>>

(* ---------------- helpers ---------------------------------------------- *)
\* template_id is None (ids start at 1)
NoTemplate == 0
\* compress returned None / nothing yet
NoneResult == [kind |-> "None"]
\* no second object
NoInstance == [pc |-> "none"]
NoFunction == [x \in {} |-> 0]

Max2(a, b) == IF a >= b THEN a ELSE b
Min2(a, b) == IF a <= b THEN a ELSE b
Abs(a) == IF a >= 0 THEN a ELSE -a
SetMax(S) == CHOOSE x \in S : \A y \in S : y <= x
SetMin(S) == CHOOSE x \in S : \A y \in S : x <= y

\* int(a*p/q) for a >= 0: Python's int() truncates
IntMul(a, p, q) == (a * p) \div q

RECURSIVE SeqSum(_)
SeqSum(s) == IF s = <<>> THEN 0 ELSE Head(s) + SeqSum(Tail(s))

\* s[-k:]
LastK(s, k) == IF Len(s) <= k THEN s ELSE SubSeq(s, Len(s) - k + 1, Len(s))

\* the keys of a dict in iteration order: ids are inserted in increasing order
RECURSIVE SortedSeq(_)
SortedSeq(S) == IF S = {} THEN <<>>
                ELSE LET m == SetMin(S) IN <<m>> \o SortedSeq(S \ {m})

\* del d[k]
Remove(f, k) == [x \in (DOMAIN f) \ {k} |-> f[x]]
\* d[k] = v
Put(f, k, v) == [x \in (DOMAIN f) \cup {k} |-> IF x = k THEN v ELSE f[x]]
\* d.get(k, 0)
Get0(f, k) == IF k \in DOMAIN f THEN f[k] ELSE 0

\* a/b < c/d, a/b <= c/d for positive denominators
RatLess(r, s) == r[1] * s[2] < s[1] * r[2]
RatLeq(r, s) == r[1] * s[2] <= s[1] * r[2]

(* ---------------- reset() and the initial state ------------------------ *)
\* a reset that leaves the id counter of the previous run in place
ResetKeepsCounter ==
    /\ templates' = NoFunction
    /\ template_counter' = template_counter
    /\ encoded_stream' = <<>>
    /\ current_block_size' = initial_block_size
    /\ blocks_processed' = 0
    /\ template_hit_count' = 0
    /\ templates_used' = {}
    /\ recent_values' = <<>>
    /\ block_size_history' = <<>>
    /\ cer_values' = <<>>
    /\ similarity_scores' = <<>>
    /\ template_usage' = NoFunction
    /\ template_last_used' = NoFunction
    /\ template_creation_time' = NoFunction
    /\ continuous_hit_ratio' = <<>>
    /\ window_hit_count' = 0
    /\ window_blocks' = 0
    /\ previous_adjustments' = <<>>
    /\ last_adjustment_block' = 0
    /\ last_merge_check' = 0
    /\ merged_templates' = NoFunction
    /\ template_importance' = NoFunction

\* reset(), lines 83-121
ResetState ==
    /\ templates' = NoFunction
    /\ template_counter' = 0
    /\ encoded_stream' = <<>>
    /\ current_block_size' = initial_block_size
    /\ blocks_processed' = 0
    /\ template_hit_count' = 0
    /\ templates_used' = {}
    /\ recent_values' = <<>>
    /\ block_size_history' = <<>>
    /\ cer_values' = <<>>
    /\ similarity_scores' = <<>>
    /\ template_usage' = NoFunction
    /\ template_last_used' = NoFunction
    /\ template_creation_time' = NoFunction
    /\ continuous_hit_ratio' = <<>>
    /\ window_hit_count' = 0
    /\ window_blocks' = 0
    /\ previous_adjustments' = <<>>
    /\ last_adjustment_block' = 0
    /\ last_merge_check' = 0
    /\ merged_templates' = NoFunction
    /\ template_importance' = NoFunction

\* __init__ (lines 18-81): the configuration is stored and reset() is called.
\* The input is a list of n sample dicts ("dicts") or a flat numeric array.
\* The caller's config is merged over the defaults (lines 76-77), so
\* config['block_size'] is whatever the caller supplied.
InitWith(sizes, lengths) ==
    /\ max_templates = MaxTemplates
    /\ multi_dimensional \in BOOLEAN
    /\ adaptive_block_size \in BOOLEAN
    /\ initial_block_size \in sizes
    /\ min_blocks_before_adjustment = EarlyStart
    /\ data \in [kind : {"dicts", "flat"}, n : lengths]
    /\ pc = "idle"
    /\ result = NoneResult
    /\ error = ""
    /\ calls = 0
    /\ i = 0 /\ block_size = 0 /\ end_idx = 0
    /\ template_id = NoTemplate /\ is_match = FALSE
    /\ templates = NoFunction
    /\ template_counter = 0
    /\ encoded_stream = <<>>
    /\ current_block_size = initial_block_size
    /\ blocks_processed = 0
    /\ template_hit_count = 0
    /\ templates_used = {}
    /\ recent_values = <<>>
    /\ block_size_history = <<>>
    /\ cer_values = <<>>
    /\ similarity_scores = <<>>
    /\ template_usage = NoFunction
    /\ template_last_used = NoFunction
    /\ template_creation_time = NoFunction
    /\ continuous_hit_ratio = <<>>
    /\ window_hit_count = 0
    /\ window_blocks = 0
    /\ previous_adjustments = <<>>
    /\ last_adjustment_block = 0
    /\ last_merge_check = 0
    /\ merged_templates = NoFunction
    /\ template_importance = NoFunction

\* an instance built with the default block size
Init == InitWith({config_block_size}, InputLengths) /\ other = NoInstance

\* an instance built with the default block size or with block_size 0
InitAnyBlockSize ==
    InitWith(BlockSizeConfigs, InputLengths) /\ other = NoInstance

(* ---------------- compress: entry -------------------------------------- *)
\* the dict returned for an undersized input, lines 1431-1446
UndersizedResult(n) ==
    [kind |-> "dict", templates |-> NoFunction, encoded_stream |-> <<>>,
     compression_ratio |-> <<1, 1>>, blocks_processed |-> 0,
     hit_ratio |-> <<0, 1>>, total_values |-> n]

\* the dispatch of line 1425
TakesMultiBranch ==
    multi_dimensional /\ data.kind = "dicts" /\ data.n > 0

\* compress, lines 1412-1452 and the else branch 1626-1632 (a bare `pass`,
\* so the call returns None)
Compress ==
    /\ pc = "idle"
    /\ ResetState
    /\ IF TakesMultiBranch
       THEN IF data.n < min_block_size
            THEN /\ result' = UndersizedResult(data.n)
                 /\ pc' = "done"
            ELSE /\ result' = NoneResult
                 /\ pc' = "loop"
       ELSE /\ result' = NoneResult
            /\ pc' = "done"
    /\ i' = 0
    /\ calls' = calls + 1
    /\ UNCHANGED <<callVars, error, other, block_size, end_idx, template_id,
                   is_match>>

(* ---------------- compress: slicing ------------------------------------ *)
\* a block that runs past the end of the input
WholeBlock(current, remaining) == current

\* a block cut one sample short of the current size
BlockLengthShort(current, remaining) == Min2(current - 1, remaining)

\* line 1464: min(self.current_block_size, n - i)
BlockLength(current, remaining) == Min2(current, remaining)

\* lines 1453-1465: the size is logged, then the block is cut
Slice ==
    /\ pc = "loop"
    /\ i < data.n
    /\ blocks_processed < BlockLimit(data.n)
    /\ block_size_history' = Append(block_size_history,
          [kind |-> "size",
           size |-> IF current_block_size > 0 THEN current_block_size
                    ELSE min_block_size])
    /\ block_size' = BlockLength(current_block_size, data.n - i)
    /\ end_idx' = i + block_size'
    /\ pc' = "match"
    /\ UNCHANGED <<callVars, calls, other, result, error, i, template_id, is_match, storeVars,
                   historyVars, counterVars, current_block_size,
                   previous_adjustments, last_adjustment_block>>

(* ---------------- trend detector ---------------------------------------- *)
\* a window that is cut at its end, so that the oldest values stay
KeepOldest(rv, mean) ==
    SubSeq(Append(rv, mean), 1, Min2(Len(rv) + 1, trend_detection_window))

\* lines 171-174: the new mean is appended and the window is trimmed
PushRecent(rv, mean) == LastK(Append(rv, mean), trend_detection_window)

\* sums of the least-squares fit of line 185 over x = 0..m-1, y = rv,
\* each multiplied by m: sxy = m*Sum(xy) - Sum(x)Sum(y), and so on
Regression(rv) ==
    LET m == Len(rv)
        X == [k \in 1..m |-> k - 1]
        sx == SeqSum(X)
        sy == SeqSum(rv)
    IN  [sxy |-> m * SeqSum([k \in 1..m |-> X[k] * rv[k]]) - sx * sy,
         sxx |-> m * SeqSum([k \in 1..m |-> X[k] * X[k]]) - sx * sx,
         syy |-> m * SeqSum([k \in 1..m |-> rv[k] * rv[k]]) - sy * sy]

\* r_value^2 compared with (pct/100)^2 for the sums g of a fit; linregress
\* gives r = 0 for constant y
CorrelationAbove(g, pct) ==
    g.syy > 0 /\ 10000 * g.sxy * g.sxy > pct * pct * g.sxx * g.syy
CorrelationBelow(g, pct) ==
    g.syy = 0 \/ 10000 * g.sxy * g.sxy < pct * pct * g.sxx * g.syy

\* trend_strength = abs(r_value) > pct/100 (lines 177-188): with fewer than
\* 3 values the strength is 0.0
StrengthAbove(rv, pct) ==
    Len(rv) >= 3 /\ CorrelationAbove(Regression(rv), pct)

\* trend_strength < pct/100
StrengthBelow(rv, pct) ==
    Len(rv) < 3 \/ CorrelationBelow(Regression(rv), pct)

\* has_trend of detect_trend (line 190)
HasTrend(rv) == StrengthAbove(rv, trend_threshold)

\* trend_type (line 189): the sign of the slope
SlopeSign(g) == IF g.sxy > 0 THEN 1 ELSE IF g.sxy < 0 THEN -1 ELSE 0
TrendType(rv) == IF Len(rv) < 3 THEN 0 ELSE SlopeSign(Regression(rv))

(* ---------------- find_matching_template ------------------------------- *)
\* What the data decide about one active template: whether the prefilter of
\* lines 963-965 lets it through (checked), and what is_similar returns
Observations ==
    {[checked |-> FALSE, similar |-> FALSE, score |-> 0],
     [checked |-> TRUE, similar |-> FALSE, score |-> 0]}
    \cup {[checked |-> TRUE, similar |-> TRUE, score |-> s] : s \in Scores}

\* similarity_boost, lines 930-935
SimilarityBoost(rv) ==
    IF HasTrend(rv) /\ StrengthAbove(rv, 85) THEN 15 ELSE 0

\* adjusted_similarity, line 974
AdjustedSimilarity(rv, score) ==
    IF HasTrend(rv) THEN score - SimilarityBoost(rv) ELSE score

\* potential_matches, lines 977-979
PotentialMatches(obs, rv) ==
    {t \in DOMAIN obs : obs[t].similar
                        /\ AdjustedSimilarity(rv, obs[t].score) > 30}

\* the first potential match in dict order, whatever its score
FirstMatch(obs, P) == SetMin(P)

\* potential_matches[0] after the stable sort of line 982: the highest score,
\* the first in dict order among equals
BestMatch(obs, P) ==
    CHOOSE t \in P : \A u \in P : \/ obs[u].score < obs[t].score
                                  \/ (obs[u].score = obs[t].score /\ t <= u)

\* the scores is_similar appends at lines 833-834, in iteration order
RECURSIVE SimilarScores(_, _)
SimilarScores(obs, ids) ==
    IF ids = <<>> THEN <<>>
    ELSE (IF obs[Head(ids)].similar THEN <<obs[Head(ids)].score>> ELSE <<>>)
         \o SimilarScores(obs, Tail(ids))

\* line 990: the best candidate is dropped under a very strong trend
RejectedByTrend(rv, best_similarity) ==
    HasTrend(rv) /\ StrengthAbove(rv, 90) /\ best_similarity < 70

\* a count that goes up for every template in the table
UsedByAll(usage, t) == [u \in DOMAIN usage |-> usage[u] + 1]

\* update_template_metrics(best_template_id, used=True) on the usage table
\* (lines 137-138, called at line 995)
UsedOnce(usage, t) == [usage EXCEPT ![t] = @ + 1]

\* update_template_metrics(template_id, used=False) for every checked template
\* (lines 123-139, 968)
TouchChecked(last_used, obs, bp) ==
    [t \in DOMAIN last_used |->
        IF t \in DOMAIN obs /\ obs[t].checked THEN bp ELSE last_used[t]]

\* a length test that lets every window through
NeverTooShort(length) == FALSE

\* line 897: len(data[primary_dim]) < self.config['min_values']
WindowTooShort(length) == length < min_values

\* lines 895-900: a window of the primary dimension shorter than min_values
\* returns (None, 0, False) at once
FindMatchTooShort ==
    /\ pc = "match"
    /\ WindowTooShort(block_size)
    /\ template_id' = NoTemplate
    /\ is_match' = FALSE
    /\ pc' = "create"
    /\ UNCHANGED <<callVars, calls, other, result, error, i, block_size, end_idx, storeVars,
                   historyVars, counterVars, controllerVars>>

\* lines 902-1008
FindMatch ==
    /\ pc = "match"
    /\ ~WindowTooShort(block_size)
    /\ \E mean \in Means, obs \in [DOMAIN templates -> Observations],
          cer \in CerLevels :
        LET rv == PushRecent(recent_values, mean)
            touched == TouchChecked(template_last_used, obs, blocks_processed)
            seen == SimilarScores(obs, SortedSeq(DOMAIN templates))
            P == PotentialMatches(obs, rv)
            best == BestMatch(obs, P)
            accepted == P # {} /\ ~RejectedByTrend(rv, obs[best].score)
        IN  /\ recent_values' = rv
            /\ IF accepted
               THEN /\ template_id' = best
                    /\ is_match' = TRUE
                    /\ template_usage' = UsedOnce(template_usage, best)
                    /\ template_last_used' =
                          [touched EXCEPT ![best] = blocks_processed]
                    /\ cer_values' = Append(cer_values, cer)
                    /\ similarity_scores' = similarity_scores \o seen
                          \o (IF obs[best].score > 0 THEN <<obs[best].score>>
                              ELSE <<>>)
                    /\ pc' = "encode"
               ELSE /\ template_id' = NoTemplate
                    /\ is_match' = FALSE
                    /\ template_usage' = template_usage
                    /\ template_last_used' = touched
                    /\ cer_values' = cer_values
                    /\ similarity_scores' = similarity_scores \o seen
                    /\ pc' = "create"
    /\ UNCHANGED <<callVars, calls, other, result, error, i, block_size, end_idx, templates,
                   template_counter, template_creation_time, last_merge_check,
                   merged_templates, template_importance, counterVars,
                   controllerVars>>

(* ---------------- template store ---------------------------------------- *)
\* the store fields as one value, so that the methods below compose
Store ==
    [templates |-> templates, template_counter |-> template_counter,
     template_usage |-> template_usage, template_last_used |-> template_last_used,
     template_creation_time |-> template_creation_time,
     last_merge_check |-> last_merge_check, merged_templates |-> merged_templates,
     template_importance |-> template_importance, error |-> "",
     templates_merged |-> 0]

\* importance as <<numerator, denominator>>, lines 299-312 with the weights
\* 0.5 / 0.3 / 0.2 of template_importance_weight
ImportanceOf(s, t, bp, max_usage, max_age, max_unused) ==
    LET usage == Get0(s.template_usage, t)
        age == bp - Get0(s.template_creation_time, t)
        unused_time == bp - Get0(s.template_last_used, t)
    IN  <<5 * usage * max_age * max_unused
          + 3 * (max_unused - unused_time) * max_usage * max_age
          + 2 * age * max_usage * max_unused,
          10 * max_usage * max_age * max_unused>>

\* lines 296-314 for given maxima: a maximum of 0 is a division by zero
ImportanceTable(s, bp, max_usage, max_age, max_unused) ==
    IF max_usage = 0 \/ max_age = 0 \/ max_unused = 0
    THEN [s EXCEPT !.error = "ZeroDivisionError"]
    ELSE [s EXCEPT !.template_importance =
            [t \in DOMAIN s.template_importance \cup DOMAIN s.templates |->
                IF t \in DOMAIN s.templates
                THEN ImportanceOf(s, t, bp, max_usage, max_age, max_unused)
                ELSE s.template_importance[t]]]

\* calculate_template_importance, lines 275-314.  The three maxima are
\* divisors; none is guarded against 0 when its table is not empty.
CalculateTemplateImportance(s, bp) ==
    IF bp = 0 \/ DOMAIN s.templates = {} THEN s
    ELSE ImportanceTable(s, bp,
            IF DOMAIN s.template_usage # {}
            THEN SetMax({s.template_usage[t] : t \in DOMAIN s.template_usage})
            ELSE 1,
            IF DOMAIN s.template_creation_time # {}
            THEN SetMax({bp - s.template_creation_time[t] :
                            t \in DOMAIN s.template_creation_time})
            ELSE 1,
            IF DOMAIN s.template_last_used # {}
            THEN SetMax({bp - s.template_last_used[t] :
                            t \in DOMAIN s.template_last_used})
            ELSE 1)

\* self.template_importance.get(tid, 0)
ImportanceGet(imp, t) == IF t \in DOMAIN imp THEN imp[t] ELSE <<0, 1>>

\* the id created first, whatever its importance
OldestTemplate(imp, S) == SetMin(S)

\* the first of the ids of S with the lowest importance, in dict order
LeastImportant(imp, S) ==
    CHOOSE t \in S : \A u \in S :
        \/ RatLess(ImportanceGet(imp, t), ImportanceGet(imp, u))
        \/ (RatLeq(ImportanceGet(imp, t), ImportanceGet(imp, u)) /\ t <= u)

\* the stable sort by importance of line 243
RECURSIVE SortByImportance(_, _)
SortByImportance(imp, S) ==
    IF S = {} THEN <<>>
    ELSE LET m == LeastImportant(imp, S)
         IN  <<m>> \o SortByImportance(imp, S \ {m})

\* a delete that leaves the last-used entry of the template behind
DropButLastUsed(s, t) ==
    [s EXCEPT !.templates = Remove(@, t),
              !.template_usage = Remove(@, t),
              !.template_creation_time = Remove(@, t),
              !.template_importance = Remove(@, t)]

\* the deletes of lines 261-271, 392-400 and 1105-1114
DropTemplate(s, t) ==
    [s EXCEPT !.templates = Remove(@, t),
              !.template_usage = Remove(@, t),
              !.template_last_used = Remove(@, t),
              !.template_creation_time = Remove(@, t),
              !.template_importance = Remove(@, t)]

\* the archive entry of lines 248-254 and 1097-1103
ArchiveEntry(s, t) ==
    [data |-> s.templates[t],
     usage |-> Get0(s.template_usage, t),
     last_used |-> Get0(s.template_last_used, t),
     creation_time |-> Get0(s.template_creation_time, t),
     importance |-> ImportanceGet(s.template_importance, t)]

\* Lines 342-344 and 1029-1030 compare the 5-tuple that
\* calculate_similarity_score returns with a float.  Python 3 raises TypeError
\* for tuple > float, and both call sites catch Exception, log and go on.
TupleExceedsFloat == "TypeError"

\* the first component of calculate_similarity_score for two stored templates
TemplateSimilarity(a, b) ==
    IF <<a, b>> \in data.similar \/ <<b, a>> \in data.similar
    THEN PairScore(IF a < b THEN <<a, b>> ELSE <<b, a>>)
    ELSE 50

\* the candidates if line 344 compared the score itself with the threshold
PairsAboveThreshold(s) ==
    {pair \in (DOMAIN s.templates) \X (DOMAIN s.templates) :
        /\ pair[1] < pair[2]
        /\ ~(Get0(s.template_usage, pair[1]) > 10
             /\ Get0(s.template_usage, pair[2]) > 10)
        /\ TemplateSimilarity(pair[1], pair[2]) > template_merge_threshold}

\* merge_candidates, lines 328-355: a pair is appended only when the
\* comparison of line 344 yields True
MergeCandidates(s) ==
    {pair \in (DOMAIN s.templates) \X (DOMAIN s.templates) :
        /\ pair[1] < pair[2]
        /\ ~(Get0(s.template_usage, pair[1]) > 10
             /\ Get0(s.template_usage, pair[2]) > 10)
        /\ TupleExceedsFloat = "True"}

\* the candidate list of line 358, sorted by similarity: the order among the
\* pairs that the comparison of line 344 admits
RECURSIVE CandidateSeq(_)
CandidateSeq(C) ==
    IF C = {} THEN <<>>
    ELSE LET c == CHOOSE x \in C : TRUE IN <<c>> \o CandidateSeq(C \ {c})

\* the candidate pairs as (source, target): the template with the smaller
\* usage is the source, lines 367-380
MergeOrder(s, pairs) ==
    [k \in DOMAIN pairs |->
        IF Get0(s.template_usage, pairs[k][1]) >= Get0(s.template_usage, pairs[k][2])
        THEN <<pairs[k][2], pairs[k][1]>>
        ELSE <<pairs[k][1], pairs[k][2]>>]

\* one merge, lines 382-404: the target takes over usage and last use, the
\* source is archived with merged_into and deleted
MergeInto(s, source, target) ==
    LET s1 == [s EXCEPT
                 !.template_usage =
                     Put(@, target, Get0(@, target) + Get0(@, source)),
                 !.template_last_used =
                     Put(@, target, Max2(Get0(@, target), Get0(@, source))),
                 !.merged_templates =
                     Put(@, source,
                         [data |-> s.templates[source],
                          merged_into |-> target,
                          usage |-> Get0(s.template_usage, source),
                          last_used |-> Get0(s.template_last_used, source),
                          creation_time |->
                              Get0(s.template_creation_time, source)])]
    IN  DropTemplate(s1, source)

\* the loop of lines 365-411 over the sorted candidates, at most 3 merges
RECURSIVE ApplyMerges(_, _, _, _)
ApplyMerges(s, cands, processed_templates, templates_merged) ==
    IF cands = <<>> \/ templates_merged >= 3
    THEN [s EXCEPT !.templates_merged = templates_merged]
    ELSE LET source == Head(cands)[1]
             target == Head(cands)[2]
         IN  IF \/ source \in processed_templates
                \/ target \in processed_templates
                \/ source \notin DOMAIN s.templates
                \/ target \notin DOMAIN s.templates
             THEN ApplyMerges(s, Tail(cands), processed_templates,
                              templates_merged)
             ELSE ApplyMerges(MergeInto(s, source, target), Tail(cands),
                              processed_templates \cup {source, target},
                              templates_merged + 1)

\* a loop over the candidates that keeps no set of processed templates and
\* has no limit
RECURSIVE MergeUnchecked(_, _, _)
MergeUnchecked(s, cands, templates_merged) ==
    IF cands = <<>> THEN [s EXCEPT !.templates_merged = templates_merged]
    ELSE IF \/ Head(cands)[1] \notin DOMAIN s.templates
            \/ Head(cands)[2] \notin DOMAIN s.templates
         THEN MergeUnchecked(s, Tail(cands), templates_merged)
         ELSE MergeUnchecked(MergeInto(s, Head(cands)[1], Head(cands)[2]),
                             Tail(cands), templates_merged + 1)

\* a pass that merges every pair scoring above the threshold
MergeEveryPair(s) ==
    MergeUnchecked(s, MergeOrder(s, CandidateSeq(PairsAboveThreshold(s))), 0)

\* merge_similar_templates, lines 316-413
MergeSimilarTemplates(s) ==
    IF Cardinality(DOMAIN s.templates) < 5 THEN s
    ELSE ApplyMerges(s, MergeOrder(s, CandidateSeq(MergeCandidates(s))), {}, 0)

\* the removal conditions of lines 232-234
IsExpired(s, t, bp) ==
    LET template_age == bp - Get0(s.template_creation_time, t)
        unused_time == bp - Get0(s.template_last_used, t)
        usage_count == Get0(s.template_usage, t)
    IN  \/ (unused_time > template_expiration
            /\ 10 * template_age > 8 * max_template_age)
        \/ (usage_count <= template_usage_threshold
            /\ 10 * template_age > 9 * max_template_age)
        \/ (template_age > max_template_age /\ usage_count < 3)

\* an eviction that archives whatever the importance is
ArchiveAlways(s, t, imp) ==
    [s EXCEPT !.merged_templates = Put(@, t, ArchiveEntry(s, t))]

\* lines 246-259: the template goes to the archive when its importance
\* exceeds 0.3
ArchiveIfImportant(s, t, imp) ==
    IF 10 * imp[1] > 3 * imp[2]
    THEN [s EXCEPT !.merged_templates = Put(@, t, ArchiveEntry(s, t))]
    ELSE s

\* lines 246-271 for the ids of seq
RECURSIVE ArchiveAndRemove(_, _)
ArchiveAndRemove(s, seq) ==
    IF seq = <<>> THEN s
    ELSE ArchiveAndRemove(
            DropTemplate(
               ArchiveIfImportant(s, Head(seq),
                  ImportanceGet(s.template_importance, Head(seq))),
               Head(seq)),
            Tail(seq))

\* lines 236-271: the flagged templates, least important first, cut to
\* num_to_remove
RemoveFlagged(s, templates_to_remove) ==
    ArchiveAndRemove(s,
        SubSeq(SortByImportance(s.template_importance, templates_to_remove), 1,
               Min2(Cardinality(templates_to_remove),
                    Max2(1, IntMul(Cardinality(DOMAIN s.templates), 5, 100)))))

\* lines 222-271, after the importance has been recomputed
RemoveExpired(s, bp) ==
    IF s.error # "" THEN s
    ELSE RemoveFlagged(s, {t \in DOMAIN s.templates : IsExpired(s, t, bp)})

\* lines 212-271, after the merge step
CleanAboveThreshold(s, bp) ==
    IF 10 * Cardinality(DOMAIN s.templates) <= 9 * max_templates THEN s
    ELSE RemoveExpired(CalculateTemplateImportance(s, bp), bp)

\* a cleanup that runs the merge pass every time it is called
MergeAtEveryCleanup(s, bp) ==
    CleanAboveThreshold(
        IF enable_template_merging
        THEN [MergeSimilarTemplates(s) EXCEPT !.last_merge_check = bp]
        ELSE s,
        bp)

\* clean_expired_templates, lines 194-273
CleanExpiredTemplates(s, bp) ==
    CleanAboveThreshold(
        IF enable_template_merging
           /\ bp - s.last_merge_check >= template_merge_interval
        THEN [MergeSimilarTemplates(s) EXCEPT !.last_merge_check = bp]
        ELSE s,
        bp)

\* best_match_id of lines 1022-1034: an archived id is kept only when the
\* comparison of line 1030 yields True
ResurrectionMatch(s) ==
    IF \E t \in DOMAIN s.merged_templates : TupleExceedsFloat = "True"
    THEN SetMin(DOMAIN s.merged_templates)
    ELSE NoTemplate

\* lines 1037-1064
Resurrect(s, best_match_id, bp) ==
    LET id == s.template_counter + 1
    IN  [store |->
            [s EXCEPT !.template_counter = id,
                      !.templates = Put(@, id, s.merged_templates[best_match_id].data),
                      !.template_usage = Put(@, id, 1),
                      !.template_creation_time = Put(@, id, bp),
                      !.template_last_used = Put(@, id, bp),
                      !.merged_templates = Remove(@, best_match_id)],
         id |-> id]

\* an id taken from the number of active templates
ReusedId(s) == Cardinality(DOMAIN s.templates) + 1

\* the id issued at lines 1070-1072
NewTemplateId(s) == s.template_counter + 1

\* an insertion after which every stored template is the caller's window
InsertShared(s, window, bp) ==
    [s EXCEPT !.template_counter = @ + 1,
              !.templates = [t \in DOMAIN @ \cup {s.template_counter + 1}
                                |-> window],
              !.template_usage = Put(@, s.template_counter + 1, 1),
              !.template_creation_time = Put(@, s.template_counter + 1, bp),
              !.template_last_used = Put(@, s.template_counter + 1, bp)]

\* an insertion that uses up two ids
InsertSkipsId(s, window, bp) ==
    LET id == NewTemplateId(s)
    IN  [s EXCEPT !.template_counter = @ + 2,
                  !.templates = Put(@, id, window),
                  !.template_usage = Put(@, id, 1),
                  !.template_creation_time = Put(@, id, bp),
                  !.template_last_used = Put(@, id, bp)]

\* lines 1070-1086: the window is copied in under a new id and
\* update_template_metrics(template_id, used=True) initialises its tables
InsertTemplate(s, window, bp) ==
    LET id == NewTemplateId(s)
    IN  [s EXCEPT !.template_counter = @ + 1,
                  !.templates = Put(@, id, window),
                  !.template_usage = Put(@, id, 1),
                  !.template_creation_time = Put(@, id, bp),
                  !.template_last_used = Put(@, id, bp)]

\* an eviction that keeps no archive entry
DropUnarchived(s, least_important_id) == DropTemplate(s, least_important_id)

\* lines 1096-1114: the evicted template is archived, then deleted
ArchiveLeastImportant(s, least_important_id) ==
    IF least_important_id \notin DOMAIN s.templates
    THEN [s EXCEPT !.error = "KeyError"]
    ELSE DropTemplate(
            [s EXCEPT !.merged_templates =
                Put(@, least_important_id, ArchiveEntry(s, least_important_id))],
            least_important_id)

\* lines 1091-1116, after the importance has been recomputed; min() of an
\* empty importance table raises ValueError
EvictFrom(s) ==
    IF s.error # "" THEN s
    ELSE IF DOMAIN s.template_importance = {}
    THEN [s EXCEPT !.error = "ValueError"]
    ELSE ArchiveLeastImportant(s,
            LeastImportant(s.template_importance, DOMAIN s.template_importance))

\* lines 1089-1116: over capacity, the least important template is archived
\* and removed
EvictLeastImportant(s, bp) == EvictFrom(CalculateTemplateImportance(s, bp))

\* a create that never evicts
NoEviction(s, bp) == s

\* lines 1088-1118: the capacity check after the insertion
EvictIfOver(s, bp) ==
    IF Cardinality(DOMAIN s.templates) > max_templates
    THEN EvictLeastImportant(s, bp)
    ELSE s

\* lines 1070-1118 on the store that cleanup left: an exception raised in
\* cleanup ends create_template
InsertAndEvict(s, window, bp) ==
    IF s.error # "" THEN [store |-> s, id |-> NoTemplate]
    ELSE [store |-> EvictIfOver(InsertTemplate(s, window, bp), bp),
          id |-> NewTemplateId(s)]

\* lines 1020-1064 for the archived id found, or lines 1066-1118 when none is
CreateWith(s, best_match_id, window, bp) ==
    IF /\ DOMAIN s.merged_templates # {}
       /\ 10 * Cardinality(DOMAIN s.templates) > 8 * max_templates
       /\ best_match_id # NoTemplate
    THEN Resurrect(s, best_match_id, bp)
    ELSE InsertAndEvict(
            IF 100 * Cardinality(DOMAIN s.templates) >= 95 * max_templates
            THEN CleanExpiredTemplates(s, bp)
            ELSE s,
            window, bp)

\* create_template, lines 1010-1118: the store afterwards and the id returned
CreateTemplate(s, window, bp) ==
    CreateWith(s, ResurrectionMatch(s), window, bp)

\* line 1480: no template matched, create_template(block_data) is called.  An
\* exception raised inside it is caught nowhere in compress and ends the call.
CreateTemplateStep ==
    /\ pc = "create"
    /\ \E r \in {CreateTemplate(Store, [start |-> i, length |-> block_size],
                               blocks_processed)} :
           /\ templates' = r.store.templates
           /\ template_counter' = r.store.template_counter
           /\ template_usage' = r.store.template_usage
           /\ template_last_used' = r.store.template_last_used
           /\ template_creation_time' = r.store.template_creation_time
           /\ last_merge_check' = r.store.last_merge_check
           /\ merged_templates' = r.store.merged_templates
           /\ template_importance' = r.store.template_importance
           /\ error' = r.store.error
           /\ IF r.store.error # ""
              THEN /\ pc' = "raised"
                   /\ template_id' = template_id
              ELSE /\ pc' = "encode"
                   /\ template_id' = r.id
    /\ UNCHANGED <<callVars, calls, other, result, i, block_size, end_idx, is_match,
                   historyVars, counterVars, controllerVars>>

(* ---------------- compress: encoding ------------------------------------ *)
\* lines 1479-1512: the counters of a hit, the encoded block, the block and
\* window counters, and the test that decides whether adjust_block_size runs
Encode ==
    /\ pc = "encode"
    /\ template_hit_count' = IF is_match THEN template_hit_count + 1
                             ELSE template_hit_count
    /\ templates_used' = templates_used \cup {template_id}
    /\ encoded_stream' = Append(encoded_stream,
          [template_id |-> template_id, start_idx |-> i, length |-> block_size])
    /\ blocks_processed' = blocks_processed + 1
    /\ LET hits == IF is_match THEN window_hit_count + 1 ELSE window_hit_count
           blocks == window_blocks + 1
       IN  IF blocks >= window_size
           THEN /\ continuous_hit_ratio' =
                      Append(continuous_hit_ratio, <<hits, blocks>>)
                /\ window_hit_count' = 0
                /\ window_blocks' = 0
           ELSE /\ continuous_hit_ratio' = continuous_hit_ratio
                /\ window_hit_count' = hits
                /\ window_blocks' = blocks
    /\ IF adaptive_block_size /\ blocks_processed' >= min_blocks_before_adjustment
       THEN pc' = "adjust" /\ i' = i
       ELSE pc' = "loop" /\ i' = end_idx
    /\ UNCHANGED <<callVars, calls, other, result, error, block_size, end_idx, template_id,
                   is_match, storeVars, historyVars, controllerVars>>

(* ---------------- adjust_block_size -------------------------------------- *)
\* a/b - c/d and the comparison of a ratio with the decimal p/q
RatDiff(r, s) == <<r[1] * s[2] - s[1] * r[2], r[2] * s[2]>>
RatAbove(r, p, q) == r[1] * q > p * r[2]
RatBelow(r, p, q) == r[1] * q < p * r[2]

\* lines 1128-1144: the window counters are advanced a second time for the
\* block that compress has already counted, then the hit-ratio list is made
\* non-empty
AdjustWindow ==
    LET blocks == window_blocks + 1
        hits == IF /\ Len(encoded_stream) > 0
                   /\ encoded_stream[Len(encoded_stream)].template_id # NoTemplate
                THEN window_hit_count + 1
                ELSE window_hit_count
        full == blocks >= window_size
        ratios == IF full THEN Append(continuous_hit_ratio, <<hits, blocks>>)
                  ELSE continuous_hit_ratio
    IN  [window_blocks |-> IF full THEN 0 ELSE blocks,
         window_hit_count |-> IF full THEN 0 ELSE hits,
         continuous_hit_ratio |->
            IF ratios = <<>>
            THEN <<<<template_hit_count, blocks_processed>>>>
            ELSE ratios]

\* a gate that lets an evaluation through at every block
EveryBlock(scores) == 1

\* lines 1154-1159: the interval is halved (not below 2) after a low or
\* sharply falling similarity score
AdjustmentInterval(scores) ==
    LET m == Len(scores)
    IN  IF m >= 2 /\ (scores[m] < 40 \/ scores[m] - scores[m - 1] < -20)
        THEN Max2(2, IntMul(min_adjustment_interval, 1, 2))
        ELSE min_adjustment_interval

\* lines 1149-1162: the two gates
GatesPass(scores) ==
    /\ adaptive_block_size
    /\ blocks_processed >= min_blocks_before_adjustment
    /\ blocks_processed - last_adjustment_block >= AdjustmentInterval(scores)

\* 5 * recent_similarity in hundredths (line 1175): the sum of the last five
\* scores, 1.0 when there are fewer than five
RecentSimilarity5(scores) ==
    IF Len(scores) >= 5 THEN SeqSum(LastK(scores, 5)) ELSE 500

\* similarity_trend, lines 1178-1181
SimilarityTrend(scores) ==
    IF Len(scores) >= 5 THEN scores[Len(scores)] - scores[Len(scores) - 4]
    ELSE 0

\* hit_ratio_trend, lines 1200-1204
HitRatioTrend(ratios) ==
    IF Len(ratios) >= 3
    THEN RatDiff(ratios[Len(ratios)], ratios[Len(ratios) - 2])
    ELSE <<0, 1>>

\* What the quadratic fit of lines 1209-1246 can yield: 0 when it does not
\* apply (fewer than 3 adjustments or distinct sizes, a2 >= 0, a vertex
\* outside [min, max], an exception), otherwise a vertex inside [min, max].
\* The fitted coefficients are not computed; every admissible vertex is kept.
PolynomialOptimum(adjustments) ==
    IF /\ Len(adjustments) >= 3
       /\ Cardinality({adjustments[k][1] : k \in DOMAIN adjustments}) >= 3
    THEN {0} \cup (min_block_size .. max_block_size)
    ELSE {0}

\* lines 1236-1241: the step towards the vertex is capped at 15%
PolynomialSize(nbest, optimal_size) ==
    LET max_change == IntMul(nbest, 15, 100)
    IN  IF Abs(optimal_size - nbest) > max_change
        THEN IF optimal_size > nbest THEN nbest + max_change
             ELSE nbest - max_change
        ELSE optimal_size

\* increase_score in thousandths, lines 1261-1274
IncreaseScore(rhr, hrt, rsim5, rv) ==
    (IF RatAbove(rhr, 6, 10) THEN 200 ELSE 0)
    + (IF hrt[1] >= 0 THEN 200 ELSE 0)
    + (IF rsim5 > 350 THEN 500 ELSE 0)
    + (IF ~HasTrend(rv) \/ StrengthBelow(rv, 50) THEN 100 ELSE 0)

\* decrease_score in thousandths, lines 1278-1294
DecreaseScore(rhr, hrt, rsim5, simtrend, rv) ==
    (IF RatBelow(rhr, 5, 10) THEN 200 ELSE 0)
    + (IF hrt[1] < 0 THEN 200 ELSE 0)
    + (IF rsim5 < 300 THEN 500 ELSE 0)
    + (IF simtrend < -10 THEN 250 ELSE 0)
    + (IF HasTrend(rv) /\ StrengthAbove(rv, 50) THEN 100 ELSE 0)

\* int(nbest * (1 + adjustment_factor)), lines 1299-1300.  The factor is a
\* Python float: with increase_score 0.2 + 0.5 and decrease_score 0.2 + 0.1
\* (which is 0.30000000000000004) it lies just below 0.28, and a product that
\* would be a whole number truncates one lower.  Exact for nbest below 90.
IncreasedSize(nbest, inc, dec) ==
    LET exact == (nbest * (10000 + Min2(3500, (inc - dec) * 7))) \div 10000
    IN  IF inc = 700 /\ dec = 300 /\ (nbest * 28) % 100 = 0 THEN exact - 1
        ELSE exact

\* int(nbest * (1 - adjustment_factor)), lines 1304-1305
DecreasedSize(nbest, inc, dec) ==
    (nbest * (10000 - Min2(3000, (dec - inc) * 6))) \div 10000

\* lines 1297-1322 for the two scores: the proposed size and its reason
HeuristicChoice(nbest, rhr, hrt, rsim5, simtrend, inc, dec) ==
    IF inc > dec + 200
    THEN [nnew |-> IncreasedSize(nbest, inc, dec),
          reason |-> "faster_increase_by_weighted_score"]
    ELSE IF dec > inc + 100
    THEN [nnew |-> DecreasedSize(nbest, inc, dec),
          reason |-> "fast_decrease_by_weighted_score"]
    ELSE IF RatAbove(hrt, 5, 100) \/ simtrend > 0
    THEN [nnew |-> IntMul(nbest, 125, 100),
          reason |-> "stronger_increase_by_trend"]
    ELSE IF RatBelow(hrt, -1, 10) \/ simtrend < -5
    THEN [nnew |-> IntMul(nbest, 85, 100),
          reason |-> "moderate_decrease_by_trend"]
    ELSE IF RatAbove(rhr, 5, 10) /\ rsim5 > 275
    THEN [nnew |-> IntMul(nbest, 11, 10),
          reason |-> "moderate_increase_for_stable_good_metrics"]
    ELSE [nnew |-> nbest, reason |-> "stable_performance"]

\* the weighted heuristic, lines 1248-1322
Heuristic(nbest, rhr, hrt, rsim5, simtrend, rv) ==
    HeuristicChoice(nbest, rhr, hrt, rsim5, simtrend,
                    IncreaseScore(rhr, hrt, rsim5, rv),
                    DecreaseScore(rhr, hrt, rsim5, simtrend, rv))

\* a proposal that consults the strategies however long the history is
ProposalAnyTime(nbest, optimal_size, rhr, hrt, rsim5, simtrend, rv) ==
    IF blocks_processed >= min_blocks_before_adjustment
    THEN IF optimal_size # 0
         THEN [nnew |-> PolynomialSize(nbest, optimal_size),
               reason |-> "polynomial_optimization"]
         ELSE Heuristic(nbest, rhr, hrt, rsim5, simtrend, rv)
    ELSE [nnew |-> nbest, reason |-> "stable_performance"]

\* lines 1207-1322: the proposal of the polynomial or of the heuristic, made
\* only while the history is shorter than kmax
Proposal(nbest, optimal_size, rhr, hrt, rsim5, simtrend, rv) ==
    IF blocks_processed >= min_blocks_before_adjustment
       /\ Len(block_size_history) < kmax
    THEN IF optimal_size # 0
         THEN [nnew |-> PolynomialSize(nbest, optimal_size),
               reason |-> "polynomial_optimization"]
         ELSE Heuristic(nbest, rhr, hrt, rsim5, simtrend, rv)
    ELSE [nnew |-> nbest, reason |-> "stable_performance"]

\* special_condition, lines 1328-1331
SpecialCondition(rhr, rsim5) ==
    \/ RatBelow(rhr, 35, 100)
    \/ rsim5 < 225
    \/ (RatAbove(rhr, 8, 10) /\ rsim5 > 350)
    \/ blocks_processed < 10

\* max(min_block_size, min(max_block_size, nnew)), lines 1341-1342
Clamp(nnew) == Max2(min_block_size, Min2(max_block_size, nnew))

\* lines 1345-1347: at the maximum with a falling metric the size is cut
CutFromMax(nbest, hrt, simtrend, d) ==
    IF nbest = max_block_size /\ (hrt[1] < 0 \/ simtrend < 0)
    THEN [size |-> IntMul(nbest, 8, 10),
          reason |-> "significant_reduce_from_max_due_to_declining_metrics"]
    ELSE d

\* lines 1350-1362: at the minimum the size is always raised
IncreaseFromMin(nbest, rhr, hrt, rsim5, simtrend, d) ==
    IF nbest # min_block_size THEN d
    ELSE IF RatAbove(rhr, 5, 10) \/ rsim5 > 300
    THEN [size |-> IntMul(nbest, 2, 1),
          reason |-> "aggressive_increase_from_min_due_to_good_metrics"]
    ELSE IF hrt[1] > 0 /\ simtrend > 0
    THEN [size |-> IntMul(nbest, 3, 2),
          reason |-> "stronger_increase_from_min_due_to_improving_trends"]
    ELSE [size |-> IntMul(nbest, 13, 10),
          reason |-> "default_increase_from_min_size"]

\* lines 1365-1374: early in the run the size is pushed up
EarlyStageGrowth(nbest, rhr, rsim5, d) ==
    IF blocks_processed > min_blocks_before_adjustment * 3 THEN d
    ELSE IF rsim5 > 275
    THEN IF d.size < IntMul(nbest, 3, 2)
         THEN [size |-> IntMul(nbest, 3, 2),
               reason |->
                 "early_stage_aggressive_increase_due_to_good_performance"]
         ELSE d
    ELSE IF RatAbove(rhr, 3, 10) /\ d.size < IntMul(nbest, 12, 10)
    THEN [size |-> IntMul(nbest, 12, 10),
          reason |-> "early_stage_default_increase"]
    ELSE d

\* lines 1341-1374: the clamped proposal and then the three overrides
Overridden(nbest, rhr, hrt, rsim5, simtrend, p) ==
    EarlyStageGrowth(nbest, rhr, rsim5,
        IncreaseFromMin(nbest, rhr, hrt, rsim5, simtrend,
            CutFromMax(nbest, hrt, simtrend,
                [size |-> Clamp(p.nnew), reason |-> p.reason])))

\* lines 1325-1339 for the proposal p: it is applied when it leaves the
\* dead band wn or a special condition holds
Applied(nbest, rhr, rsim5, p) ==
    \/ Abs(p.nnew - nbest) > Max2(1, IntMul(nbest, 3, 100))
    \/ SpecialCondition(rhr, rsim5)

\* new_block_size and adjustment_reason for the override result d
Outcome(nbest, applied, p, d) ==
    IF applied
    THEN [new_block_size |-> d.size, reason |-> d.reason, applied |-> TRUE]
    ELSE [new_block_size |-> nbest, reason |-> p.reason, applied |-> FALSE]

\* lines 1325-1374 for the proposal p
Resolve(nbest, rhr, hrt, rsim5, simtrend, p) ==
    Outcome(nbest, Applied(nbest, rhr, rsim5, p), p,
            Overridden(nbest, rhr, hrt, rsim5, simtrend, p))

\* lines 1207-1374 for the metrics of lines 1164-1204
Decide(nbest, optimal_size, rhr, hrt, rsim5, simtrend, rv) ==
    Resolve(nbest, rhr, hrt, rsim5, simtrend,
            Proposal(nbest, optimal_size, rhr, hrt, rsim5, simtrend, rv))

\* lines 1164-1374 once the gates have passed: new_block_size, its reason and
\* whether the proposal was applied
Decision(nbest, optimal_size, ratios, scores, rv) ==
    Decide(nbest, optimal_size, ratios[Len(ratios)], HitRatioTrend(ratios),
           RecentSimilarity5(scores), SimilarityTrend(scores), rv)

\* an evaluation that sets the size and logs nothing
ApplyWithoutRecord(d, hit_ratio) ==
    /\ block_size_history' = block_size_history
    /\ current_block_size' = d.new_block_size
    /\ last_adjustment_block' = blocks_processed
    /\ previous_adjustments' =
          Append(previous_adjustments, <<d.new_block_size, hit_ratio>>)

\* lines 1377-1408: the record, the new size and the adjustment log
ApplyDecision(d, hit_ratio) ==
    /\ block_size_history' = Append(block_size_history,
          [kind |-> "adjust",
           block_number |-> blocks_processed,
           old_size |-> current_block_size,
           new_size |-> d.new_block_size,
           adjustment_reason |-> d.reason])
    /\ current_block_size' = d.new_block_size
    /\ last_adjustment_block' = blocks_processed
    /\ previous_adjustments' =
          Append(previous_adjustments, <<d.new_block_size, hit_ratio>>)
          \o (IF ~d.applied /\ blocks_processed % 20 = 0
              THEN <<<<current_block_size, hit_ratio>>>>
              ELSE <<>>)

\* adjust_block_size, lines 1120-1410, called at line 1512; then line 1515.
\* optima are the vertices the quadratic fit may yield in this call.
AdjustWith(optima) ==
    /\ pc = "adjust"
    /\ \E w \in {AdjustWindow}, optimal_size \in optima :
        /\ window_blocks' = w.window_blocks
        /\ window_hit_count' = w.window_hit_count
        /\ continuous_hit_ratio' = w.continuous_hit_ratio
        /\ IF GatesPass(similarity_scores)
           THEN ApplyDecision(
                   Decision(current_block_size, optimal_size,
                            w.continuous_hit_ratio, similarity_scores,
                            recent_values),
                   <<template_hit_count, blocks_processed>>)
           ELSE UNCHANGED controllerVars
    /\ i' = end_idx
    /\ pc' = "loop"
    /\ UNCHANGED <<callVars, calls, other, result, error, block_size, end_idx, template_id,
                   is_match, storeVars, historyVars, encoded_stream,
                   blocks_processed, template_hit_count, templates_used>>

AdjustBlockSize == AdjustWith(PolynomialOptimum(previous_adjustments))

(* ---------------- compress: the result ---------------------------------- *)
\* lines 1533-1544: bytes of the active templates that the stream refers to
UsedTemplateSize ==
    LET used == {encoded_stream[k].template_id : k \in DOMAIN encoded_stream}
                \cap DOMAIN templates
    IN  SeqSum([k \in 1..Len(SortedSeq(used)) |->
                   templates[SortedSeq(used)[k]].length * 8 * NumDims + 4])

\* lines 1608-1621: adjustment records give their new_size, logged sizes stay
ProcessedBlockSizes ==
    [k \in DOMAIN block_size_history |->
        IF block_size_history[k].kind = "adjust"
        THEN block_size_history[k].new_size
        ELSE IF block_size_history[k].size <= 0 THEN min_block_size
        ELSE block_size_history[k].size]

\* the two counters the wrong way round
BlocksPerHit(hits, blocks) == <<blocks, Max2(1, hits)>>

\* line 1559: template_hit_count / max(1, blocks_processed)
HitRatio(hits, blocks) == <<hits, Max2(1, blocks)>>

\* lines 1518-1624: the loop has consumed the input and the result is built.
\* Ratios and means are pairs <<numerator, denominator>>; cost is left out.
Finalize ==
    /\ pc = "loop"
    /\ i >= data.n
    /\ result' =
          [kind |-> "dict",
           templates |-> templates,
           encoded_stream |-> encoded_stream,
           templates_used |-> Cardinality(templates_used),
           templates_total |-> Cardinality(DOMAIN templates),
           compression_ratio |->
              <<data.n * 8 * NumDims,
                Max2(1, UsedTemplateSize + Len(encoded_stream) * 12)>>,
           hit_ratio |-> HitRatio(template_hit_count, blocks_processed),
           avg_cer |-> IF cer_values # <<>>
                       THEN <<SeqSum(cer_values), Len(cer_values)>>
                       ELSE <<0, 1>>,
           avg_similarity |-> IF similarity_scores # <<>>
                              THEN <<SeqSum(similarity_scores),
                                     Len(similarity_scores)>>
                              ELSE <<0, 1>>,
           block_size_history |-> ProcessedBlockSizes,
           total_values |-> data.n]
    /\ pc' = "done"
    /\ UNCHANGED <<callVars, calls, other, error, localVars, storeVars, historyVars,
                   counterVars, controllerVars>>

(* ---------------- the specification ------------------------------------- *)
Next ==
    \/ Compress
    \/ Slice
    \/ FindMatchTooShort
    \/ FindMatch
    \/ CreateTemplateStep
    \/ Encode
    \/ AdjustBlockSize
    \/ Finalize

Spec == Init /\ [][Next]_vars

\* A further compress call on the same instance, after the previous call has
\* returned or raised: a new call frame and a new input, the object's fields
\* as the previous call left them, the configuration as constructed.
CallAgain ==
    /\ pc \in {"done", "raised"}
    /\ calls < MaxCalls
    /\ data' \in [kind : {"dicts", "flat"}, n : InputLengths]
    /\ pc' = "idle"
    /\ result' = NoneResult
    /\ error' = ""
    /\ i' = 0 /\ block_size' = 0 /\ end_idx' = 0
    /\ template_id' = NoTemplate /\ is_match' = FALSE
    /\ UNCHANGED <<max_templates, multi_dimensional, adaptive_block_size,
                   initial_block_size, min_blocks_before_adjustment, calls, other, storeVars, historyVars, counterVars, controllerVars>>

NextReuse == Next \/ CallAgain

\* an instance that is used for several compress calls in a row
SpecReuse == Init /\ [][NextReuse]_vars

(* ---------------- two DataCompressor objects --------------------------- *)
\* Every attribute the class uses is an instance attribute assigned in
\* __init__/reset (lines 26, 88-119); the module holds no other mutable
\* object than the logger (line 14). A second object is therefore a second
\* copy of all fields, with its own call frame.
Suspended ==
    [max_templates |-> max_templates,
     multi_dimensional |-> multi_dimensional,
     adaptive_block_size |-> adaptive_block_size,
     initial_block_size |-> initial_block_size,
     min_blocks_before_adjustment |-> min_blocks_before_adjustment,
     data |-> data,
     pc |-> pc,
     result |-> result,
     error |-> error,
     calls |-> calls,
     i |-> i,
     block_size |-> block_size,
     end_idx |-> end_idx,
     template_id |-> template_id,
     is_match |-> is_match,
     templates |-> templates,
     template_counter |-> template_counter,
     encoded_stream |-> encoded_stream,
     current_block_size |-> current_block_size,
     blocks_processed |-> blocks_processed,
     template_hit_count |-> template_hit_count,
     templates_used |-> templates_used,
     recent_values |-> recent_values,
     block_size_history |-> block_size_history,
     cer_values |-> cer_values,
     similarity_scores |-> similarity_scores,
     template_usage |-> template_usage,
     template_last_used |-> template_last_used,
     template_creation_time |-> template_creation_time,
     continuous_hit_ratio |-> continuous_hit_ratio,
     window_hit_count |-> window_hit_count,
     window_blocks |-> window_blocks,
     previous_adjustments |-> previous_adjustments,
     last_adjustment_block |-> last_adjustment_block,
     last_merge_check |-> last_merge_check,
     merged_templates |-> merged_templates,
     template_importance |-> template_importance]

\* the object that resumes, with a class-level template dict that both
\* objects would share
SharesTemplates(inst) == [inst EXCEPT !.templates = templates]

\* the object that resumes: its own fields, as they were when it was suspended
Resumed(inst) == inst

Resume(inst) ==
    /\ max_templates' = inst.max_templates
    /\ multi_dimensional' = inst.multi_dimensional
    /\ adaptive_block_size' = inst.adaptive_block_size
    /\ initial_block_size' = inst.initial_block_size
    /\ min_blocks_before_adjustment' = inst.min_blocks_before_adjustment
    /\ data' = inst.data
    /\ pc' = inst.pc
    /\ result' = inst.result
    /\ error' = inst.error
    /\ calls' = inst.calls
    /\ i' = inst.i
    /\ block_size' = inst.block_size
    /\ end_idx' = inst.end_idx
    /\ template_id' = inst.template_id
    /\ is_match' = inst.is_match
    /\ templates' = inst.templates
    /\ template_counter' = inst.template_counter
    /\ encoded_stream' = inst.encoded_stream
    /\ current_block_size' = inst.current_block_size
    /\ blocks_processed' = inst.blocks_processed
    /\ template_hit_count' = inst.template_hit_count
    /\ templates_used' = inst.templates_used
    /\ recent_values' = inst.recent_values
    /\ block_size_history' = inst.block_size_history
    /\ cer_values' = inst.cer_values
    /\ similarity_scores' = inst.similarity_scores
    /\ template_usage' = inst.template_usage
    /\ template_last_used' = inst.template_last_used
    /\ template_creation_time' = inst.template_creation_time
    /\ continuous_hit_ratio' = inst.continuous_hit_ratio
    /\ window_hit_count' = inst.window_hit_count
    /\ window_blocks' = inst.window_blocks
    /\ previous_adjustments' = inst.previous_adjustments
    /\ last_adjustment_block' = inst.last_adjustment_block
    /\ last_merge_check' = inst.last_merge_check
    /\ merged_templates' = inst.merged_templates
    /\ template_importance' = inst.template_importance

\* The scheduler suspends the running call and resumes the call on the other
\* object (two threads or processes, one object each).
Switch ==
    /\ other # NoInstance
    /\ other' = Suspended
    /\ Resume(Resumed(other))

\* two objects of the same configuration, each about to compress its own input
InitTwoInstances ==
    /\ InitWith({config_block_size}, TwoRunLengths)
    /\ multi_dimensional /\ adaptive_block_size /\ data.kind = "dicts"
    /\ other \in {[Suspended EXCEPT !.data = [kind |-> "dicts", n |-> m]] :
                     m \in TwoRunLengths}

NextTwoInstances == Next \/ Switch

\* two runs on two objects, their steps interleaved in any order
SpecTwoInstances == InitTwoInstances /\ [][NextTwoInstances]_vars

(* ---------------- store operations on a given store --------------------- *)
\* merge_similar_templates and create_template are functions of the store,
\* of blocks_processed and of the similarity of the stored data.  Here they
\* are applied to stores of 4 to 6 templates with ids 2, 3, ..; template 1
\* was evicted earlier and may be in the archive.  data records what
\* calculate_similarity_score yields on the stored data.

\* the archive entry of template 1, evicted by create_template
EvictedEntry ==
    [data |-> [start |-> 0, length |-> min_block_size], usage |-> 1,
     last_used |-> 0, creation_time |-> 0, importance |-> <<1, 2>>]

InitStore ==
    /\ max_templates = StoreCapacity
    /\ multi_dimensional = TRUE
    /\ adaptive_block_size = TRUE
    /\ initial_block_size = config_block_size
    /\ min_blocks_before_adjustment = EarlyStart
    /\ pc = "store"
    /\ result = NoneResult
    /\ error = ""
    /\ calls = 1
    /\ other = NoInstance
    /\ i = StoreBlocks * min_block_size
    /\ block_size = min_block_size
    /\ end_idx = i + min_block_size
    /\ template_id = NoTemplate /\ is_match = FALSE
    /\ \E k \in StoreSizes :
          /\ templates = [t \in 2..(k + 1) |->
                            [start |-> (t - 1) * min_block_size,
                             length |-> min_block_size]]
          /\ template_counter = k + 1
          /\ template_usage \in [2..(k + 1) -> UsageCounts]
          /\ template_last_used = [t \in 2..(k + 1) |-> 100 + t]
          /\ template_creation_time = [t \in 2..(k + 1) |-> t - 1]
          /\ \E pairs \in SUBSET {p \in SimilarPairs : p[2] <= k + 1},
                scores \in [{1} -> ArchiveScores] :
                data = [kind |-> "store", n |-> 0, similar |-> pairs,
                        archive_score |-> scores]
    /\ merged_templates \in {NoFunction, [t \in {1} |-> EvictedEntry]}
    /\ last_merge_check \in {0, StoreBlocks}
    /\ template_importance = NoFunction
    /\ blocks_processed = StoreBlocks
    /\ encoded_stream = <<>>
    /\ current_block_size = config_block_size
    /\ template_hit_count = 0
    /\ templates_used = {}
    /\ recent_values = <<>>
    /\ block_size_history = <<>>
    /\ cer_values = <<>>
    /\ similarity_scores = <<>>
    /\ continuous_hit_ratio = <<>>
    /\ window_hit_count = 0
    /\ window_blocks = 0
    /\ previous_adjustments = <<>>
    /\ last_adjustment_block = 0

\* a call of merge_similar_templates, lines 316-413
MergePass ==
    /\ pc = "store"
    /\ \E m \in {MergeSimilarTemplates(Store)} :
           /\ templates' = m.templates
           /\ template_usage' = m.template_usage
           /\ template_last_used' = m.template_last_used
           /\ template_creation_time' = m.template_creation_time
           /\ merged_templates' = m.merged_templates
           /\ template_importance' = m.template_importance
           /\ result' = [kind |-> "merged",
                         templates_merged |-> m.templates_merged]
    /\ pc' = "merged"
    /\ UNCHANGED <<callVars, calls, other, error, localVars, template_counter,
                   last_merge_check, historyVars, counterVars, controllerVars>>

\* a call of create_template on the window, lines 1010-1118
CreateCall ==
    /\ pc = "store"
    /\ \E r \in {CreateTemplate(Store, [start |-> i, length |-> block_size],
                               blocks_processed)} :
           /\ templates' = r.store.templates
           /\ template_counter' = r.store.template_counter
           /\ template_usage' = r.store.template_usage
           /\ template_last_used' = r.store.template_last_used
           /\ template_creation_time' = r.store.template_creation_time
           /\ last_merge_check' = r.store.last_merge_check
           /\ merged_templates' = r.store.merged_templates
           /\ template_importance' = r.store.template_importance
           /\ error' = r.store.error
           /\ template_id' = IF r.store.error # "" THEN template_id ELSE r.id
           /\ result' = [kind |-> "created"]
    /\ pc' = "created"
    /\ UNCHANGED <<callVars, calls, other, i, block_size, end_idx, is_match,
                   historyVars, counterVars, controllerVars>>

NextStore == MergePass \/ CreateCall

SpecStore == InitStore /\ [][NextStore]_vars

\* the same program on instances configured with any block size
SpecAnyBlockSize == InitAnyBlockSize /\ [][Next]_vars

(* ---------------- detect_trend on its own -------------------------------- *)
\* detect_trend reads and writes recent_values only.  Here it is called
\* directly, with the values of a window (data.n > 0, of mean data.mean) or
\* with [] as adjust_block_size does at line 1169; calls counts the calls
\* that carried values.

\* trend_strength squared, as <<numerator, denominator>>: 0.0 with fewer
\* than 3 values (line 178) and for constant values
StrengthSquared(rv) ==
    IF Len(rv) < 3 \/ Regression(rv).syy = 0 THEN <<0, 1>>
    ELSE <<Regression(rv).sxy * Regression(rv).sxy,
           Regression(rv).sxx * Regression(rv).syy>>

\* the tuple (has_trend, trend_type, trend_strength) returned at line 178 or 192
TrendResult(rv) ==
    [kind |-> "trend", has_trend |-> HasTrend(rv), trend_type |-> TrendType(rv),
     strength_squared |-> StrengthSquared(rv)]

InitTrend ==
    /\ max_templates = MaxTemplates
    /\ multi_dimensional \in BOOLEAN
    /\ adaptive_block_size = TRUE
    /\ initial_block_size = config_block_size
    /\ min_blocks_before_adjustment = EarlyStart
    /\ data = [kind |-> "window", n |-> 0, mean |-> 0]
    /\ pc = "detect"
    /\ result = NoneResult
    /\ error = ""
    /\ calls = 0
    /\ other = NoInstance
    /\ i = 0 /\ block_size = 0 /\ end_idx = 0
    /\ template_id = NoTemplate /\ is_match = FALSE
    /\ templates = NoFunction
    /\ template_counter = 0
    /\ encoded_stream = <<>>
    /\ current_block_size = initial_block_size
    /\ blocks_processed = 0
    /\ template_hit_count = 0
    /\ templates_used = {}
    /\ recent_values = <<>>
    /\ block_size_history = <<>>
    /\ cer_values = <<>>
    /\ similarity_scores = <<>>
    /\ template_usage = NoFunction
    /\ template_last_used = NoFunction
    /\ template_creation_time = NoFunction
    /\ continuous_hit_ratio = <<>>
    /\ window_hit_count = 0
    /\ window_blocks = 0
    /\ previous_adjustments = <<>>
    /\ last_adjustment_block = 0
    /\ last_merge_check = 0
    /\ merged_templates = NoFunction
    /\ template_importance = NoFunction

\* detect_trend(values), lines 141-192, for a window of min_block_size values
DetectTrend ==
    /\ pc = "detect"
    /\ calls < MaxObservations
    /\ \E mean \in Means :
          /\ data' = [kind |-> "window", n |-> min_block_size, mean |-> mean]
          /\ recent_values' = PushRecent(recent_values, mean)
    /\ result' = TrendResult(recent_values')
    /\ calls' = calls + 1
    /\ UNCHANGED <<max_templates, multi_dimensional, adaptive_block_size,
                   initial_block_size, min_blocks_before_adjustment, pc, error, other, localVars, storeVars,
                   cer_values, similarity_scores, counterVars, controllerVars>>

\* detect_trend([]), lines 141-192: neither branch of lines 153-169 is taken
DetectStored ==
    /\ pc = "detect"
    /\ data' = [kind |-> "window", n |-> 0, mean |-> 0]
    /\ recent_values' = LastK(recent_values, trend_detection_window)
    /\ result' = TrendResult(recent_values')
    /\ UNCHANGED <<max_templates, multi_dimensional, adaptive_block_size,
                   initial_block_size, min_blocks_before_adjustment, pc, error, calls, other, localVars,
                   storeVars, cer_values, similarity_scores, counterVars,
                   controllerVars>>

NextTrend == DetectTrend \/ DetectStored

SpecTrend == InitTrend /\ [][NextTrend]_vars

(* ---------------- a long run on a steady signal ------------------------- *)
\* The runs of Spec end after MaxBlocks blocks.  Here one run is followed
\* for MaxLongBlocks blocks, with min_blocks_before_adjustment configured as
\* in Spec or as LateStart, on an input whose windows all have the mean 0
\* and, once a template exists, all match one, and the quadratic fit of
\* adjust_block_size never yields a vertex; the similarity scores are still
\* any of Scores.

InitSteady ==
    /\ max_templates = MaxTemplates
    /\ multi_dimensional = TRUE
    /\ adaptive_block_size = TRUE
    /\ initial_block_size = config_block_size
    /\ min_blocks_before_adjustment \in {EarlyStart, LateStart}
    /\ data \in [kind : {"dicts"}, n : LongLengths]
    /\ pc = "idle"
    /\ result = NoneResult
    /\ error = ""
    /\ calls = 0
    /\ other = NoInstance
    /\ i = 0 /\ block_size = 0 /\ end_idx = 0
    /\ template_id = NoTemplate /\ is_match = FALSE
    /\ templates = NoFunction
    /\ template_counter = 0
    /\ encoded_stream = <<>>
    /\ current_block_size = initial_block_size
    /\ blocks_processed = 0
    /\ template_hit_count = 0
    /\ templates_used = {}
    /\ recent_values = <<>>
    /\ block_size_history = <<>>
    /\ cer_values = <<>>
    /\ similarity_scores = <<>>
    /\ template_usage = NoFunction
    /\ template_last_used = NoFunction
    /\ template_creation_time = NoFunction
    /\ continuous_hit_ratio = <<>>
    /\ window_hit_count = 0
    /\ window_blocks = 0
    /\ previous_adjustments = <<>>
    /\ last_adjustment_block = 0
    /\ last_merge_check = 0
    /\ merged_templates = NoFunction
    /\ template_importance = NoFunction

\* find_matching_template on a window of the steady signal
FindMatchSteady ==
    /\ FindMatch
    /\ recent_values'[Len(recent_values')] = 0
    /\ templates # NoFunction => is_match'

\* adjust_block_size in a call where the quadratic fit yields no vertex
AdjustSteady == AdjustWith({0})

NextSteady ==
    \/ Compress
    \/ Slice
    \/ FindMatchTooShort
    \/ FindMatchSteady
    \/ CreateTemplateStep
    \/ Encode
    \/ AdjustSteady
    \/ Finalize

SpecSteady == InitSteady /\ [][NextSteady]_vars

(* ---------------- a run of fixed block size on a level signal ----------- *)
\* One run with adaptive_block_size off on an input of LevelN samples, five
\* whole blocks and a short one, whose windows all have the mean 0; which
\* templates a window is compared with and how similar they are is open.

InitLevel ==
    /\ InitWith({config_block_size}, {LevelN})
    /\ multi_dimensional
    /\ ~adaptive_block_size
    /\ data.kind = "dicts"
    /\ other = NoInstance

\* find_matching_template on a window of the level signal
FindMatchLevel ==
    /\ FindMatch
    /\ recent_values'[Len(recent_values')] = 0

NextLevel ==
    \/ Compress
    \/ Slice
    \/ FindMatchTooShort
    \/ FindMatchLevel
    \/ CreateTemplateStep
    \/ Encode
    \/ Finalize

SpecLevel == InitLevel /\ [][NextLevel]_vars


(* ---------------- properties -------------------------------------------- *)
\* every block has length >= 1, the first starts at 0 and each following one
\* starts where the previous one ends
Contiguous(stream) ==
    \A k \in DOMAIN stream :
        /\ stream[k].length >= 1
        /\ stream[k].start_idx =
              IF k = 1 THEN 0
              ELSE stream[k - 1].start_idx + stream[k - 1].length

\* the last block ends at n
Covers(stream, n) ==
    /\ stream # <<>>
    /\ stream[Len(stream)].start_idx + stream[Len(stream)].length = n

\* a result dict was returned for an input of at least min_block_size samples
FullRunReturned ==
    pc = "done" /\ result.kind = "dict" /\ data.n >= min_block_size

\* C1: for an input of n >= min_block_size samples the encoded_stream that
\* compress returns partitions [0, n): the first block starts at 0, every
\* length is >= 1, each block starts at the previous start plus the previous
\* length, and the lengths sum to n; the stream under construction is
\* contiguous from 0 in every state, whatever the matches and adjustments.
C1_StreamPartitionsInput ==
    /\ Contiguous(encoded_stream)
    /\ FullRunReturned =>
          /\ Contiguous(result.encoded_stream)
          /\ Covers(result.encoded_stream, data.n)

\* C1 case: a returned stream of several blocks, with hits and misses and a
\* block size that the controller changed during the run
C1_AdjustedRunReturned ==
    /\ FullRunReturned
    /\ Len(result.encoded_stream) >= 3
    /\ template_hit_count >= 1
    /\ template_counter >= 2
    /\ \E k \in DOMAIN block_size_history :
          /\ block_size_history[k].kind = "adjust"
          /\ block_size_history[k].new_size # block_size_history[k].old_size

\* create_template has just returned to compress
CreateReturned == pc = "encode" /\ ~is_match

\* C2: after any create call returns, the active store holds at most
\* max_templates templates.
C2_CapacityAfterCreate ==
    CreateReturned => Cardinality(DOMAIN templates) <= max_templates

\* C2 case: a create returned with the store full, after more ids had been
\* issued than the store can hold
C2_CreateAtCapacity ==
    /\ CreateReturned
    /\ Cardinality(DOMAIN templates) = max_templates
    /\ template_id = template_counter
    /\ template_counter > max_templates

\* C3: after any call of adjust_block_size the current block size lies in
\* [min_block_size, max_block_size].
C3_BlockSizeWithinBounds ==
    /\ min_block_size <= current_block_size
    /\ current_block_size <= max_block_size

\* every id the run has issued so far: each one is active, archived or named
\* by the block it was created for
IssuedIds ==
    DOMAIN templates \cup DOMAIN merged_templates
    \cup {encoded_stream[k].template_id : k \in DOMAIN encoded_stream}

\* C4: the id that create returns is greater than every id issued before in
\* the run, so ids strictly increase and none is issued twice, also after
\* the template that held an id was evicted or archived.
C4_IdsStrictlyIncrease ==
    [][(pc = "create" /\ pc' = "encode")
          => \A t \in IssuedIds : template_id' > t]_vars

\* C4 case: an id issued after an earlier template has left the active store
C4_IdIssuedAfterRemoval ==
    /\ CreateReturned
    /\ template_id >= 3
    /\ \E t \in 1..(template_id - 1) : t \notin DOMAIN templates

\* no id is both active and archived
ArchiveDisjoint(s) == DOMAIN s.templates \cap DOMAIN s.merged_templates = {}

\* the store on which create inserts: after cleanup when it runs
StoreBeforeInsert ==
    IF 100 * Cardinality(DOMAIN templates) >= 95 * max_templates
    THEN CleanExpiredTemplates(Store, blocks_processed)
    ELSE Store

\* the capacity eviction from s to e removed one template and archived it
EvictionArchived(s, e) ==
    e.error = "" =>
        /\ Cardinality(DOMAIN s.templates \ DOMAIN e.templates) = 1
        /\ DOMAIN s.templates \ DOMAIN e.templates \subseteq DOMAIN e.merged_templates
        /\ ArchiveDisjoint(e)

\* the capacity eviction of the create that is about to run, if it evicts
CreateEvictionArchives(s) ==
    (s.error = "" /\ Cardinality(DOMAIN s.templates) > max_templates)
        => EvictionArchived(s, EvictLeastImportant(s, blocks_processed))

\* a merge of source into target leaves source archived and not active
MergeArchives(m, source) ==
    /\ source \notin DOMAIN m.templates
    /\ source \in DOMAIN m.merged_templates
    /\ ArchiveDisjoint(m)

\* a resurrection of the archived id t removes it from the archive and puts
\* its data into the active store
ResurrectionMoves(r, t) ==
    /\ t \notin DOMAIN r.store.merged_templates
    /\ r.id \in DOMAIN r.store.templates
    /\ r.store.templates[r.id] = merged_templates[t].data
    /\ ArchiveDisjoint(r.store)

\* C5: in every reachable state no id is both in the active store and in the
\* archive; the template that create's capacity eviction removes is in the
\* archive afterwards; in every reachable store a merge archives the
\* absorbed template and a resurrection removes the entry from the archive
\* in the step that puts its data into the active store.
C5_ActiveAndArchiveDisjoint ==
    /\ ArchiveDisjoint(Store)
    /\ pc = "create" =>
          CreateEvictionArchives(
             InsertTemplate(StoreBeforeInsert,
                            [start |-> i, length |-> block_size],
                            blocks_processed))
    /\ \A source, target \in DOMAIN templates :
          source # target =>
             MergeArchives(MergeInto(Store, source, target), source)
    /\ \A t \in DOMAIN merged_templates :
          ResurrectionMoves(Resurrect(Store, t, blocks_processed), t)

\* C5 case: create has returned and the archive holds a template of
\* importance at most 0.3, which only the capacity eviction archives
C5_EvictedIsArchived ==
    /\ CreateReturned
    /\ \E t \in DOMAIN merged_templates :
          /\ t \notin DOMAIN templates
          /\ 10 * merged_templates[t].importance[1]
                <= 3 * merged_templates[t].importance[2]

\* C6: at the end of a run the reported hit_ratio equals
\* hits / blocks_processed and lies in [0, 1]; during the run the hit
\* counter never exceeds the number of blocks processed.
C6_HitRatioExact ==
    /\ 0 <= template_hit_count
    /\ template_hit_count <= blocks_processed
    /\ (pc = "done" /\ result.kind = "dict") =>
          /\ 0 <= result.hit_ratio[1]
          /\ result.hit_ratio[1] <= result.hit_ratio[2]
          /\ blocks_processed > 0 =>
                result.hit_ratio[1] * blocks_processed
                   = template_hit_count * result.hit_ratio[2]

\* C6 case: a finished run with both matched and unmatched blocks
C6_MixedRunReturned ==
    /\ pc = "done"
    /\ result.kind = "dict"
    /\ template_hit_count >= 1
    /\ template_hit_count < blocks_processed
    /\ result.hit_ratio = <<template_hit_count, blocks_processed>>

\* the zero-activity result: no template, no block, hit ratio 0
ZeroActivity(r) ==
    /\ r.kind = "dict"
    /\ r.templates = NoFunction
    /\ r.encoded_stream = <<>>
    /\ r.hit_ratio[1] = 0

\* C7: compress called with an empty input returns a result with
\* templates = {}, encoded_stream = [], compression_ratio = 1.0 and
\* hit_ratio = 0, and processes no block.
C7_EmptyInputResult ==
    (pc = "done" /\ data.n = 0) =>
        /\ ZeroActivity(result)
        /\ result.compression_ratio[1] = result.compression_ratio[2]
        /\ blocks_processed = 0

\* C8: compress called with an undersized non-empty input
\* (0 < n < min_block_size) returns a zero-activity result with
\* blocks_processed = 0 and total_values = n; no template is created and the
\* block loop is never entered.
C8_UndersizedInputResult ==
    (pc = "done" /\ 0 < data.n /\ data.n < min_block_size) =>
        /\ ZeroActivity(result)
        /\ result.blocks_processed = 0
        /\ result.total_values = data.n
        /\ template_counter = 0
        /\ block_size_history = <<>>

\* C9: compress called on a flat numeric sequence of length
\* n >= min_block_size with multi_dimensional disabled returns a result whose
\* encoded_stream is not empty.
C9_FlatInputEncoded ==
    (pc = "done" /\ data.kind = "flat" /\ ~multi_dimensional
     /\ data.n >= min_block_size) =>
        /\ result.kind = "dict"
        /\ result.encoded_stream # <<>>

\* compress is at a point from which the code takes a further step
HasNextStep == pc \in {"idle", "loop", "match", "create", "encode", "adjust"}

\* C10: compress terminates for every input: every block consumes at least
\* one sample, and the driver goes on until it has finalized and returned,
\* so every state in which it has not returned has a further step.
C10_RunReachesDone ==
    /\ pc \in {"match", "create", "encode", "adjust"} => block_size >= 1
    /\ pc = "done" \/ HasNextStep

(* ---------------- C11: a block size of 0 -------------------------------- *)
\* the slice the driver has just cut was cut while the block size was <= 0
SlicedAtZeroSize ==
    pc = "match" /\ current_block_size <= 0

\* C11: when the current block size is 0 or negative at slicing time, the
\* block holds min_block_size samples (or what is left of the input), the
\* run goes on, and no record of the stream has length 0.
C11_ZeroSizeSelfHeals ==
    /\ SlicedAtZeroSize => block_size = Min2(min_block_size, data.n - i)
    /\ \A k \in 1..Len(encoded_stream) : encoded_stream[k].length >= 1

(* ---------------- C12: a call starts from a reset instance --------------- *)
\* every field of the instance holds the value reset() gives it
FreshInstance ==
    /\ templates = NoFunction /\ template_counter = 0
    /\ template_usage = NoFunction /\ template_last_used = NoFunction
    /\ template_creation_time = NoFunction /\ template_importance = NoFunction
    /\ merged_templates = NoFunction /\ last_merge_check = 0
    /\ encoded_stream = <<>> /\ blocks_processed = 0
    /\ template_hit_count = 0 /\ templates_used = {}
    /\ continuous_hit_ratio = <<>> /\ window_hit_count = 0 /\ window_blocks = 0
    /\ recent_values = <<>> /\ cer_values = <<>> /\ similarity_scores = <<>>
    /\ current_block_size = initial_block_size /\ block_size_history = <<>>
    /\ previous_adjustments = <<>> /\ last_adjustment_block = 0

\* the locals of the call are those of a call that has just been entered
FreshFrame ==
    /\ i = 0 /\ block_size = 0 /\ end_idx = 0
    /\ template_id = NoTemplate /\ is_match = FALSE /\ error = ""

\* C12: whatever an earlier call left in the instance, the step that enters
\* compress leaves the store, the archive, the counters, the histories and
\* the controller exactly as on a freshly constructed instance, so the rest
\* of the call is the run of a fresh instance on the same input.
C12_CallStartsFresh ==
    [][(pc = "idle" /\ pc' # "idle") => (FreshInstance /\ FreshFrame)']_vars

\* a second call on an instance whose first call built a store has returned
\* a result
C12_SecondCallReturned ==
    /\ calls = 2
    /\ pc = "done"
    /\ result.kind = "dict"
    /\ template_counter >= 2

(* ---------------- C13: runs on separate instances ------------------------ *)
\* the result an instance returned was built from its own input and fields
OwnResult(inst) ==
    (inst.pc = "done" /\ inst.result.kind = "dict" /\ inst.blocks_processed > 0)
    => /\ inst.result.total_values = inst.data.n
       /\ inst.result.encoded_stream = inst.encoded_stream
       /\ inst.result.templates = inst.templates
       /\ Contiguous(inst.result.encoded_stream)
       /\ Covers(inst.result.encoded_stream, inst.data.n)
       /\ inst.result.hit_ratio
            = HitRatio(inst.template_hit_count, inst.blocks_processed)

MergeablePair(a, b) ==
    /\ a # b
    /\ TemplateSimilarity(a, b) > template_merge_threshold
    /\ ~(template_usage[a] > 10 /\ template_usage[b] > 10)

\* C14: when a merge pass runs over a store that holds a pair of templates
\* whose similarity exceeds merge_threshold, a template of such a pair with
\* the smaller usage count is absorbed by the other one: it leaves the active
\* store, the archive holds it with merged_into naming the target, the
\* target's usage count is the sum of both, its last use the later of both,
\* and the active count has gone down.
C14_SimilarPairIsMerged ==
    [][(/\ pc = "store" /\ pc' = "merged"
        /\ Cardinality(DOMAIN templates) >= 5
        /\ \E a, b \in DOMAIN templates : MergeablePair(a, b))
       => \E source, target \in DOMAIN templates :
             /\ MergeablePair(source, target)
             /\ template_usage[source] <= template_usage[target]
             /\ source \notin DOMAIN templates'
             /\ source \in DOMAIN merged_templates'
             /\ merged_templates'[source].merged_into = target
             /\ template_usage'[target]
                  = template_usage[target] + template_usage[source]
             /\ template_last_used'[target]
                  = Max2(template_last_used[target], template_last_used[source])
             /\ Cardinality(DOMAIN templates')
                  <= Cardinality(DOMAIN templates) - 1]_vars

(* ---------------- C15: the capacity eviction of create ------------------- *)
\* create returned after an insertion that produced the store s1, and exactly
\* one template of s1 is gone: one of lowest importance in imp, now in the
\* archive with its bookkeeping; the call removed no other template
EvictedLeastImportant(s1, imp) ==
    /\ pc' = "encode"
    /\ DOMAIN templates' \subseteq DOMAIN s1.templates
    /\ Cardinality(DOMAIN s1.templates \ DOMAIN templates') = 1
    /\ \A e \in DOMAIN s1.templates \ DOMAIN templates' :
          /\ \A u \in DOMAIN s1.templates : RatLeq(imp[e], imp[u])
          /\ e \in DOMAIN merged_templates'
          /\ merged_templates'[e].data = s1.templates[e]
          /\ merged_templates'[e].usage = s1.template_usage[e]
          /\ merged_templates'[e].last_used = s1.template_last_used[e]
          /\ merged_templates'[e].creation_time = s1.template_creation_time[e]
          /\ DOMAIN templates \subseteq DOMAIN templates' \cup {e}
    /\ DOMAIN merged_templates \subseteq DOMAIN merged_templates'

\* the insertion of create produced s1: if s1 is over capacity, the eviction
\* is as C15 says, for the importance recomputed over s1
InsertionOverCapacity(s1) ==
    (s1.error = "" /\ Cardinality(DOMAIN s1.templates) > max_templates)
    => EvictedLeastImportant(s1,
          CalculateTemplateImportance(s1, blocks_processed).template_importance)

\* C15: when the active count exceeds max_templates after create has
\* inserted the new template, create evicts exactly one template, that
\* template has the lowest importance among all active templates, with the
\* importance recomputed over the whole store at that moment, it is in the
\* archive with its data, usage, last use and creation block, and no other
\* template is removed.
C15_EvictsLeastImportant ==
    [][(pc = "create" /\ pc' # "create")
       => InsertionOverCapacity(
             InsertTemplate(StoreBeforeInsert,
                            [start |-> i, length |-> block_size],
                            blocks_processed))]_vars

\* C15 case: create has returned with the store at capacity after at least
\* two evictions, and every template that left the store is in the archive
C15_EvictedAtCapacity ==
    /\ CreateReturned
    /\ template_id \in DOMAIN templates
    /\ Cardinality(DOMAIN templates) = max_templates
    /\ template_counter >= max_templates + 2
    /\ Cardinality(DOMAIN merged_templates) = template_counter - max_templates

(* ---------------- C16: size of the archive ------------------------------- *)
\* C16: the archive is bounded: entries that are not resurrected are dropped,
\* so the archive never holds more templates than the active store may hold,
\* however many templates have been evicted or merged.
C16_ArchiveStaysBounded ==
    Cardinality(DOMAIN merged_templates) <= max_templates

(* ---------------- C17: resurrection from the archive --------------------- *)
\* the archived template t scores above 0.9 against the window handed to
\* create, and no archived template scores higher
BestArchived(t) ==
    /\ t \in DOMAIN merged_templates
    /\ data.archive_score[t] > 90
    /\ \A u \in DOMAIN merged_templates :
          data.archive_score[u] <= data.archive_score[t]

\* C17: when create is called while at least 80% of max_templates are
\* occupied and an archived template scores above 0.9 against the window,
\* the best-scoring archived template is active again under a fresh id with
\* usage 1 and creation and last use at the current block, its entry has
\* left the archive, the fresh id is returned, and the window itself has
\* not been inserted.
C17_ArchivedTemplateRestored ==
    [][(/\ pc = "store" /\ pc' = "created"
        /\ 10 * Cardinality(DOMAIN templates) >= 8 * max_templates
        /\ \E t \in DOMAIN merged_templates : BestArchived(t))
       => \E t \in DOMAIN merged_templates :
             /\ BestArchived(t)
             /\ t \notin DOMAIN merged_templates'
             /\ template_id' = template_counter + 1
             /\ template_counter' = template_counter + 1
             /\ DOMAIN templates' = DOMAIN templates \cup {template_id'}
             /\ templates'[template_id'] = merged_templates[t].data
             /\ template_usage'[template_id'] = 1
             /\ template_creation_time'[template_id'] = blocks_processed
             /\ template_last_used'[template_id'] = blocks_processed]_vars

Absorbed == DOMAIN templates \ DOMAIN templates'

C20_MergeOnlyAtInterval ==
    [][/\ last_merge_check' # last_merge_check =>
            /\ pc = "create"
            /\ 100 * Cardinality(DOMAIN templates) >= 95 * max_templates
            /\ blocks_processed - last_merge_check >= template_merge_interval
            /\ last_merge_check' = blocks_processed
       /\ (\E a \in DOMAIN merged_templates' \ DOMAIN merged_templates :
              "merged_into" \in DOMAIN merged_templates'[a])
            => /\ last_merge_check' # last_merge_check
               /\ Cardinality(DOMAIN templates) >= 5]_vars

\* C20 case: create has returned from a cleanup that made the second merge
\* check of the run
C20_SecondMergeCheck ==
    /\ CreateReturned
    /\ last_merge_check = blocks_processed
    /\ last_merge_check >= 2 * template_merge_interval

(* ---------------- C21: what cleanup evicts -------------------------------- *)
\* the templates flagged by the conditions (a), (b), (c) of lines 232-234
Flagged(s, bp) == {t \in DOMAIN s.templates : IsExpired(s, t, bp)}

\* num_to_remove as the claim gives it
EvictionQuota(s, flagged) ==
    Min2(Cardinality(flagged),
         Max2(1, (Cardinality(DOMAIN s.templates) * 5) \div 100))

\* cleanup turned the store s into c: at 90% occupancy or less nothing left
\* the store; above it the templates that left are flagged ones, as many as
\* the quota, and none of them is more important in imp than a flagged
\* template that stayed
CleanupEvictsQuota(s, c, flagged, imp) ==
    IF 10 * Cardinality(DOMAIN s.templates) <= 9 * max_templates
    THEN DOMAIN c.templates = DOMAIN s.templates
    ELSE /\ DOMAIN c.templates \subseteq DOMAIN s.templates
         /\ DOMAIN s.templates \ DOMAIN c.templates \subseteq flagged
         /\ Cardinality(DOMAIN s.templates \ DOMAIN c.templates)
               = EvictionQuota(s, flagged)
         /\ \A e \in DOMAIN s.templates \ DOMAIN c.templates :
               \A f \in flagged \cap DOMAIN c.templates :
                  RatLeq(ImportanceGet(imp, e), ImportanceGet(imp, f))

\* C21: cleanup evicts nothing when occupancy is at most 90% of
\* max_templates; otherwise every template it evicts satisfies one of the
\* flag conditions, the evicted ones are the flagged templates of lowest
\* importance, and their number is min(number of flagged templates,
\* max(1, floor(5% of the template count))).  Stated of the cleanup that
\* create would run on the store of every state in which create is called.
C21_CleanupEvictsQuota ==
    pc = "create" =>
        CleanupEvictsQuota(Store,
            CleanExpiredTemplates(Store, blocks_processed),
            Flagged(Store, blocks_processed),
            CalculateTemplateImportance(Store, blocks_processed)
               .template_importance)

(* ---------------- C22: what cleanup archives ------------------------------ *)
\* the templates that cleanup took out of s, leaving c
EvictedByCleanup(s, c) == DOMAIN s.templates \ DOMAIN c.templates

\* after the create call every template that its cleanup evicted from s is
\* gone from the store and from the bookkeeping tables, and the archive holds
\* it, with the fields of lines 248-254, exactly when imp gives it more than 0.3
ArchivedIffImportant(s, evicted, imp) ==
    \A e \in evicted :
        /\ e \notin DOMAIN templates'
        /\ e \notin DOMAIN template_usage'
        /\ e \notin DOMAIN template_last_used'
        /\ e \notin DOMAIN template_creation_time'
        /\ e \notin DOMAIN template_importance'
        /\ IF 10 * imp[e][1] > 3 * imp[e][2]
           THEN /\ e \in DOMAIN merged_templates'
                /\ merged_templates'[e] =
                      [data |-> s.templates[e],
                       usage |-> s.template_usage[e],
                       last_used |-> s.template_last_used[e],
                       creation_time |-> s.template_creation_time[e],
                       importance |-> imp[e]]
           ELSE e \notin DOMAIN merged_templates'

\* C22: a template evicted by cleanup is in the archive afterwards if and
\* only if its importance, as recomputed by that cleanup, exceeded 0.3; a
\* template evicted with importance at most 0.3 is removed from the active
\* store and from the usage, last-use, creation and importance tables and
\* has no archive entry.
C22_ArchivedIffImportant ==
    [][(pc = "create" /\ pc' = "encode")
       => ArchivedIffImportant(Store,
             EvictedByCleanup(Store,
                CleanExpiredTemplates(Store, blocks_processed)),
             CalculateTemplateImportance(Store, blocks_processed)
                .template_importance)]_vars

\* C22 case: create has returned and a template that was issued earlier is
\* neither active nor archived, which only a cleanup eviction at importance
\* at most 0.3 brings about
C22_EvictedWithoutArchive ==
    /\ CreateReturned
    /\ \E t \in 1..template_counter :
          t \notin DOMAIN templates /\ t \notin DOMAIN merged_templates

(* ---------------- C23: what find_matching_template changes --------------- *)
\* C23: find_matching_template raises the usage count of the template it
\* returns by exactly 1 and that of no other template; when it returns no
\* match no usage count changes; any other template either keeps its last-use
\* block or, having been checked, gets the current block; and the call adds
\* nothing to and removes nothing from the active store, the archive and the
\* creation table.
C23_MatchCountsOnlyWinner ==
    [][(pc = "match" /\ pc' # "match")
       => /\ templates' = templates
          /\ merged_templates' = merged_templates
          /\ template_counter' = template_counter
          /\ template_creation_time' = template_creation_time
          /\ DOMAIN template_usage' = DOMAIN template_usage
          /\ DOMAIN template_last_used' = DOMAIN template_last_used
          /\ \A t \in DOMAIN template_usage :
                template_usage'[t] =
                   IF is_match' /\ t = template_id' THEN template_usage[t] + 1
                   ELSE template_usage[t]
          /\ \A t \in DOMAIN template_last_used :
                \/ template_last_used'[t] = blocks_processed
                \/ (template_last_used'[t] = template_last_used[t]
                    /\ ~(is_match' /\ t = template_id'))
          /\ is_match' => template_id' \in DOMAIN templates
          /\ ~is_match' => template_id' = NoTemplate]_vars

\* C23 case: a match was returned for one template while another one, created
\* in an earlier block and never matched, was checked for the same window
C23_CheckedButNotReturned ==
    /\ pc = "encode" /\ is_match
    /\ \E t \in DOMAIN templates \ {template_id} :
          /\ template_last_used[t] = blocks_processed
          /\ template_creation_time[t] < blocks_processed
          /\ template_usage[t] = 1

(* ---------------- C24: the template find_matching_template returns ------- *)
\* the scores the step has appended to similarity_scores: one by is_similar
\* for every template it found similar to the window (lines 833-834), then
\* the score of the returned template (lines 1001-1002)
AppendedScores ==
    SubSeq(similarity_scores', Len(similarity_scores) + 1,
           Len(similarity_scores'))

\* C24: when find_matching_template returns a template, that template was
\* checked (it passed the prefilter) and found similar by is_similar for the
\* current window, and its score is greater than or equal to the score of
\* every template that is_similar found similar to the same window.
C24_ReturnsBestScore ==
    [][(pc = "match" /\ pc' = "encode")
       => /\ template_id' \in DOMAIN templates
          /\ template_last_used'[template_id'] = blocks_processed
          /\ Len(similarity_scores') >= Len(similarity_scores) + 2
          /\ \E k \in 1..(Len(AppendedScores) - 1) :
                AppendedScores[k] = AppendedScores[Len(AppendedScores)]
          /\ \A k \in 1..Len(AppendedScores) :
                AppendedScores[k] <= AppendedScores[Len(AppendedScores)]]_vars

\* C24 case: the first match of a run was returned for a window to which two
\* templates were similar with different scores
C24_TwoSimilarTemplates ==
    /\ pc = "encode" /\ is_match
    /\ template_hit_count = 0
    /\ Len(similarity_scores) = 3
    /\ similarity_scores[1] # similarity_scores[2]

(* ---------------- C25: matching under a strong trend --------------------- *)
\* every score that is_similar reported for the window is below limit once
\* the boost margin of 0.15 has been taken off
AllPenalizedBelow(limit) ==
    \A k \in 1..Len(AppendedScores) : AppendedScores[k] - 15 < limit

\* C25: when the trend detected for the current window is stronger than 0.85
\* every candidate's score is reduced by 0.15 before it is compared with the
\* acceptance level 0.3, and when the trend is stronger than 0.9 and the best
\* candidate's score after that penalty is below 0.7, find_matching_template
\* returns no match and the driver goes on to create a template.
C25_StrongTrendRejects ==
    [][(pc = "match" /\ pc' # "match")
       => /\ (StrengthAbove(recent_values', 85) /\ AllPenalizedBelow(31))
                => (pc' = "create" /\ ~is_match')
          /\ (StrengthAbove(recent_values', 90) /\ AllPenalizedBelow(70))
                => (pc' = "create" /\ ~is_match')]_vars

ImportanceDefined(s, c) ==
    /\ c.error = ""
    /\ DOMAIN s.templates \subseteq DOMAIN c.template_importance

\* C27: the importance computation never divides by zero in a reachable
\* store: when the maximum usage, the maximum unused time or the maximum age
\* over the active templates is 0 the divisor is 1, so every active template
\* gets an importance and no create call ends in ZeroDivisionError.  The
\* stores looked at are those on which create runs cleanup, which computes
\* the importance at line 216.
C27_ImportanceNeverDividesByZero ==
    /\ error # "ZeroDivisionError"
    /\ (pc = "create"
        /\ 100 * Cardinality(DOMAIN templates) >= 95 * max_templates)
          => ImportanceDefined(Store,
                CalculateTemplateImportance(Store, blocks_processed))

(* ---------------- C28: the history of the trend detector ----------------- *)
\* after the call the history is the old one followed by the mean of the
\* values handed in, cut to its last trend_detection_window entries
NewestKept(before, after, mean) ==
    /\ Len(after) = Min2(Len(before) + 1, trend_detection_window)
    /\ after[Len(after)] = mean
    /\ \A k \in 1..(Len(after) - 1) :
          after[k] = before[Len(before) - (Len(after) - 1) + k]

\* C28: after any sequence of detect_trend calls the history holds at most
\* trend_detection_window observations, the most recent ones in the order
\* in which they arrived; a call that leaves fewer than 3 observations in the
\* history returns has_trend false, no direction and strength 0; and a call
\* with empty data adds no observation.
C28_HistoryKeepsNewest ==
    /\ [](Len(recent_values) <= trend_detection_window)
    /\ [][/\ data'.n > 0
             => NewestKept(recent_values, recent_values', data'.mean)
          /\ data'.n = 0 => recent_values' = recent_values
          /\ Len(recent_values') < 3
             => /\ ~result'.has_trend
                /\ result'.trend_type = 0
                /\ result'.strength_squared[1] = 0]_vars

\* C28 case: more observations have arrived than the window holds, and a
\* call with empty data on the full history has reported a trend
C28_FullHistoryRead ==
    /\ calls > trend_detection_window
    /\ Len(recent_values) = trend_detection_window
    /\ data.n = 0
    /\ result.kind = "trend" /\ result.has_trend

(* ---------------- C29: when the controller evaluates --------------------- *)
\* the step is a call of adjust_block_size that passed the gates: it has
\* logged a record
Evaluated ==
    pc = "adjust" /\ Len(block_size_history') = Len(block_size_history) + 1

\* the latest similarity score lies more than 0.2 below the one before
SharpDrop(scores) ==
    Len(scores) >= 2 /\ scores[Len(scores)] - scores[Len(scores) - 1] < -20

\* the latest of at least two similarity scores is below 0.4
LowScore(scores) == Len(scores) >= 2 /\ scores[Len(scores)] < 40

\* the block size is the initial one while fewer than
\* min_blocks_before_adjustment blocks have been processed; an evaluation
\* that follows an earlier one comes at least min_adjustment_interval blocks
\* after it, or max(2, half of it) when halved holds; and only an evaluation
\* changes the block size
EvaluationsApart(halved) ==
    /\ blocks_processed' < min_blocks_before_adjustment
          => current_block_size' = initial_block_size
    /\ (Evaluated /\ last_adjustment_block > 0)
          => blocks_processed - last_adjustment_block
                >= IF halved THEN Max2(2, min_adjustment_interval \div 2)
                   ELSE min_adjustment_interval
    /\ current_block_size' # current_block_size => Evaluated

\* C29: the block size stays at its initial value until
\* min_blocks_before_adjustment blocks have been processed, and any two
\* consecutive adjustment evaluations of a run are at least
\* min_adjustment_interval blocks apart, or at least max(2, half of it)
\* blocks apart when the recent similarity scores show a sharp drop; between
\* evaluations the block size does not change.
C29_SpacedUnlessSharpDrop ==
    [][EvaluationsApart(SharpDrop(similarity_scores))]_vars

\* C29 as the code has it: the shorter distance max(2, half of the interval)
\* is allowed when the latest similarity score has dropped by more than 0.2
\* or is below 0.4, whether it has dropped or not.
C29_SpacedUnlessLowOrFalling ==
    [][EvaluationsApart(SharpDrop(similarity_scores)
                        \/ LowScore(similarity_scores))]_vars

\* C29 case: the second evaluation of a run has just been made two blocks
\* after the first, on similarity scores that are low and have not dropped
C29_SecondEvaluationOnLowScore ==
    /\ pc = "loop"
    /\ last_adjustment_block = blocks_processed
    /\ LowScore(similarity_scores) /\ ~SharpDrop(similarity_scores)
    /\ \E j, k \in DOMAIN block_size_history :
          /\ j < k
          /\ block_size_history[j].kind = "adjust"
          /\ block_size_history[k].kind = "adjust"
          /\ block_size_history[k].block_number = blocks_processed
          /\ block_size_history[j].block_number = blocks_processed - 2

(* ---------------- C30: the record of an evaluation ----------------------- *)
\* the gates of adjust_block_size are open: adaptation is on, enough blocks
\* have been processed, and the last evaluation lies far enough back
GateOpen ==
    /\ adaptive_block_size
    /\ blocks_processed >= min_blocks_before_adjustment
    /\ blocks_processed - last_adjustment_block
          >= IF SharpDrop(similarity_scores) \/ LowScore(similarity_scores)
             THEN Max2(2, min_adjustment_interval \div 2)
             ELSE min_adjustment_interval

\* the history has grown by the one record rec
OneRecordAppended(rec) ==
    /\ Len(block_size_history') = Len(block_size_history) + 1
    /\ SubSeq(block_size_history', 1, Len(block_size_history))
          = block_size_history
    /\ rec.kind = "adjust"
    /\ rec.block_number = blocks_processed
    /\ rec.old_size = current_block_size
    /\ rec.new_size = current_block_size'
    /\ rec.adjustment_reason # ""

\* C30: every call of adjust_block_size that passes the gates appends exactly
\* one record to the block-size history, carrying old_size, new_size and a
\* reason tag, and afterwards the current block size is that record's
\* new_size, also when the size stays as it was; a call stopped by a gate
\* appends no record and leaves the block size and the last-adjustment block
\* unchanged.
C30_EvaluationIsRecorded ==
    [][pc = "adjust"
       => IF GateOpen
          THEN /\ OneRecordAppended(
                     block_size_history'[Len(block_size_history')])
               /\ last_adjustment_block' = blocks_processed
          ELSE /\ block_size_history' = block_size_history
               /\ current_block_size' = current_block_size
               /\ last_adjustment_block' = last_adjustment_block]_vars

\* the positions of the evaluation records in the block-size history
AdjustRecords ==
    {k \in DOMAIN block_size_history : block_size_history[k].kind = "adjust"}

\* C30 case: two evaluations have been recorded, a call stopped by the
\* interval gate lies between them, and the size is the one the later record
\* names
C30_TwoEvaluationsRecorded ==
    /\ pc = "loop"
    /\ Cardinality(AdjustRecords) = 2
    /\ block_size_history[SetMax(AdjustRecords)].block_number
          >= block_size_history[SetMin(AdjustRecords)].block_number + 2
    /\ block_size_history[SetMax(AdjustRecords)].old_size
          = block_size_history[SetMin(AdjustRecords)].new_size
    /\ block_size_history[SetMax(AdjustRecords)].new_size = current_block_size
    /\ last_adjustment_block = blocks_processed

(* ---------------- C31: an evaluation at the minimum size ----------------- *)
\* C31: whenever a call of adjust_block_size passes the gates while the
\* current block size is min_block_size, the block size afterwards is at
\* least 30% above min_block_size; the size does not stay at the minimum
\* across such a call.
C31_RaisedFromMinimum ==
    [][(pc = "adjust" /\ GateOpen /\ current_block_size = min_block_size)
       => 10 * current_block_size' >= 13 * min_block_size]_vars

(* ---------------- C32: hit counters and windowed hit ratios -------------- *)
\* block k of the stream was matched: its template was created for an
\* earlier block (ids are issued in increasing order, one per miss)
MatchedBlock(k) ==
    \E j \in 1..(k - 1) :
        encoded_stream[j].template_id >= encoded_stream[k].template_id

\* the matched blocks among blocks a..b
MatchedIn(a, b) ==
    Cardinality({k \in a..b : k \in DOMAIN encoded_stream /\ MatchedBlock(k)})

\* C32: between two blocks the global hit counter is the number of matched
\* blocks and the window counters are those of the blocks since the last
\* recorded ratio, each block counted once; every recorded windowed hit
\* ratio is (matched blocks) / (blocks) of its window of window_size blocks.
C32_CountersCountOnce ==
    (pc = "loop" /\ error = "")
    => /\ template_hit_count = MatchedIn(1, blocks_processed)
       /\ window_blocks =
             blocks_processed - window_size * Len(continuous_hit_ratio)
       /\ window_hit_count =
             MatchedIn(window_size * Len(continuous_hit_ratio) + 1,
                       blocks_processed)
       /\ \A k \in DOMAIN continuous_hit_ratio :
             continuous_hit_ratio[k][1] * window_size
                = MatchedIn(window_size * (k - 1) + 1, window_size * k)
                  * continuous_hit_ratio[k][2]

(* ---------------- C33: one history entry per matched block --------------- *)
\* C33: between two blocks and at the end of the run the CER history and the
\* similarity history each hold one entry per matched block and none for an
\* unmatched block, so avg_cer and avg_similarity are means over the matches
\* of the run (0 when there was none).
C33_OneEntryPerMatch ==
    (pc \in {"loop", "done"} /\ error = "")
    => /\ Len(cer_values) = template_hit_count
       /\ Len(similarity_scores) = template_hit_count
       /\ (pc = "done" /\ "avg_cer" \in DOMAIN result)
          => /\ result.avg_cer =
                   IF template_hit_count = 0 THEN <<0, 1>>
                   ELSE <<SeqSum(cer_values), template_hit_count>>
             /\ result.avg_similarity =
                   IF template_hit_count = 0 THEN <<0, 1>>
                   ELSE <<SeqSum(similarity_scores), template_hit_count>>

(* ---------------- C34: stored template data is never rewritten ----------- *)
\* C34: no step changes the data of a template that is in the active store
\* before and after it: find_matching_template, cleanup, the importance
\* recomputation, the capacity eviction and adjust_block_size leave it as it
\* was copied in, and so do the later windows of the caller.
C34_TemplateDataFixed ==
    [][\A t \in DOMAIN templates \cap DOMAIN templates' :
          templates'[t] = templates[t]]_vars

\* C34 case: the run has returned with the template of the first window
\* still stored as it was created, after later windows, an adjustment and an
\* eviction at capacity
C34_FirstTemplateKept ==
    /\ pc = "done"
    /\ error = ""
    /\ 1 \in DOMAIN templates
    /\ templates[1] = [start |-> 0, length |-> config_block_size]
    /\ result.templates = templates
    /\ template_counter > max_templates
    /\ last_adjustment_block > 0

(* ---------------- C35: the stream refers to returned templates ----------- *)
\* C35: when compress has returned a result, every template_id in its
\* encoded_stream is a key of its templates map, also after evictions.
C35_StreamIdsReturned ==
    (pc = "done" /\ result.kind = "dict")
    => \A k \in DOMAIN result.encoded_stream :
          result.encoded_stream[k].template_id \in DOMAIN result.templates

(* ---------------- C36: create returns an active template ----------------- *)
\* C36: when create_template returns an id, the template of that id is in
\* the active store: the capacity eviction after the insertion never removes
\* the template that was just inserted.
C36_CreatedIsActive ==
    [][(pc = "create" /\ pc' = "encode")
       => template_id' \in DOMAIN templates']_vars


(* ---------------- C37: the metadata tables follow the store -------------- *)
\* C37: after every store operation (find_matching_template, create_template,
\* clean_expired_templates, merge_similar_templates) template_usage,
\* template_last_used and template_creation_time have exactly the ids of
\* the active templates as keys, and every active template has been used at
\* least once.
C37_TablesFollowStore ==
    /\ DOMAIN template_usage = DOMAIN templates
    /\ DOMAIN template_last_used = DOMAIN templates
    /\ DOMAIN template_creation_time = DOMAIN templates
    /\ \A t \in DOMAIN templates : template_usage[t] >= 1

\* a template was removed from a store that still holds others, and a match
\* has raised a usage count
C37_RemovedAndUsed ==
    /\ pc = "done"
    /\ templates # NoFunction
    /\ Cardinality(DOMAIN templates) < template_counter
    /\ \E t \in DOMAIN templates : template_usage[t] >= 2


(* ---------------- C38: every block is a hit or a new template ------------ *)
\* C38: for every processed block either find_matching_template returned a
\* template and the hit counter was incremented, or create_template was
\* called once and issued one new id; so at every block boundary
\* template_hit_count + template_counter = blocks_processed
\* = len(encoded_stream), and the first block of a run is a miss.
C38_HitOrCreate ==
    error = "" =>
        /\ Len(encoded_stream) = blocks_processed
        /\ pc \in {"loop", "adjust", "done"} =>
              template_hit_count + template_counter = blocks_processed
        /\ pc = "encode" =>
              \/ /\ is_match
                 /\ template_id # NoTemplate
                 /\ template_hit_count + template_counter = blocks_processed
              \/ /\ ~is_match
                 /\ template_id = template_counter
                 /\ template_hit_count + template_counter = blocks_processed + 1
        /\ (pc = "encode" /\ blocks_processed = 0) => ~is_match

\* a run that has ended after hits and misses on later blocks
C38_HitsAndMisses ==
    /\ pc = "done"
    /\ error = ""
    /\ template_hit_count >= 2
    /\ template_counter >= 2
    /\ encoded_stream # <<>>
    /\ encoded_stream[1].template_id = 1
    /\ template_hit_count + template_counter = Len(encoded_stream)


(* ---------------- C39: the strategies stop at kmax history entries ------- *)
\* the reasons given by the polynomial fit and by the weighted heuristic
StrategyReasons ==
    {"polynomial_optimization", "faster_increase_by_weighted_score",
     "fast_decrease_by_weighted_score", "stronger_increase_by_trend",
     "moderate_decrease_by_trend", "moderate_increase_for_stable_good_metrics"}

\* special_condition as the evaluation about to run computes it
SpecialNow ==
    SpecialCondition(
        AdjustWindow.continuous_hit_ratio[Len(AdjustWindow.continuous_hit_ratio)],
        RecentSimilarity5(similarity_scores))

\* C39: the polynomial and the weighted heuristic are consulted only while
\* block_size_history has fewer than kmax = 20 entries.  An evaluation made
\* with kmax or more entries proposes the current size: its record carries
\* none of the strategies' reasons, and the block size changes only when a
\* special condition holds.
C39_StrategiesStopAtKmax ==
    [][(pc = "adjust" /\ GateOpen /\ Len(block_size_history) >= kmax) =>
          /\ Len(block_size_history') = Len(block_size_history) + 1
          /\ block_size_history'[Len(block_size_history')].adjustment_reason
                \notin StrategyReasons
          /\ ~SpecialNow =>
                /\ current_block_size' = current_block_size
                /\ block_size_history'[Len(block_size_history')].adjustment_reason
                      = "stable_performance"]_vars

\* a strategy decided an early evaluation, and an evaluation made after the
\* history had reached kmax entries kept the size
C39_EarlyStrategyLateStable ==
    \E j, k \in DOMAIN block_size_history :
        /\ j < kmax
        /\ k > kmax
        /\ block_size_history[j].kind = "adjust"
        /\ block_size_history[j].adjustment_reason \in StrategyReasons
        /\ block_size_history[k].kind = "adjust"
        /\ block_size_history[k].adjustment_reason = "stable_performance"
        /\ block_size_history[k].new_size = block_size_history[k].old_size


(* ---------------- C40: a run without adaptation -------------------------- *)
\* C40: with adaptive_block_size off the block size never changes during a
\* run: current_block_size stays the configured block_size, every encoded
\* block but the last has that length, the last has what is left of the
\* input if that is less, and block_size_history holds no adjustment
\* record.
C40_FixedBlockSize ==
    ~adaptive_block_size =>
        /\ current_block_size = initial_block_size
        /\ \A k \in DOMAIN encoded_stream :
              /\ k < Len(encoded_stream) =>
                    encoded_stream[k].length = initial_block_size
              /\ encoded_stream[k].length <= initial_block_size
              /\ encoded_stream[k].start_idx = (k - 1) * initial_block_size
        /\ \A k \in DOMAIN block_size_history :
              /\ block_size_history[k].kind = "size"
              /\ block_size_history[k].size = initial_block_size
        /\ previous_adjustments = <<>>
        /\ last_adjustment_block = 0

\* a run without adaptation has ended after four whole blocks and a short one
C40_FixedRunEnded ==
    /\ ~adaptive_block_size
    /\ pc = "done"
    /\ Len(encoded_stream) = 5
    /\ encoded_stream[4].length = initial_block_size
    /\ encoded_stream[5].length < initial_block_size
    /\ Len(block_size_history) = 5
    /\ blocks_processed >= min_blocks_before_adjustment

====
